---- MODULE Spec2Model ----
(***************************************************************************)
(* Session orchestration of the dev-kit server: the room (game-room.ts),   *)
(* the socket handlers that drive it (socket-server.ts) and the reference  *)
(* engine the room is bound to (examples/number-guess/src/engine.ts).      *)
(* Every socket handler runs to completion before the next event is        *)
(* delivered, so one handler is one action.                                *)
(***************************************************************************)
EXTENDS Integers, Sequences, FiniteSets, TLC

VARIABLES
    room,       \* GameRoom: players, state, phase, gameId
    bound,      \* connected socket id -> id of the player its handlers close over
    joined,     \* number of connections accepted so far (source of fresh ids)
    lastEvent,  \* the event whose handler ran last
    outbox,     \* messages emitted by that handler, in order
    calls,      \* engine functions invoked by that handler, in order
    globalThis, \* the four global timer bindings
    stack,      \* withTimerGuard activations in progress, innermost last
    warned,     \* no-op timers whose `warned` flag is set
    console,    \* console.warn advisories of the sandbox guard, in order
    trace,      \* history of the guard: calls entered, timer invocations, last exit
    loader,     \* engine-loader: the engine the handlers call, the last load
    tester,     \* GameTester: its engine, its _state object, its last act
    sim,        \* GameSimulator: its players, its _state object, its action log
    rebuilder   \* engine rebuilder of the dev command: its flags, timer and builds

roomVars == <<room, bound, joined, lastEvent, outbox, calls>>
guardVars == <<globalThis, stack, warned, console, trace>>
vars == <<room, bound, joined, lastEvent, outbox, calls,
          globalThis, stack, warned, console, trace, loader, tester, sim,
          rebuilder>>

\* Connections accepted over the lifetime of the server.
MaxJoins == 3

\* JavaScript null.
Null == [null |-> TRUE]

\* A function bound to a global timer name: the runtime's own, or a no-op
\* created by the guarded call number `call`.
TimerFn(kind, name, call) == [ kind |-> kind, name |-> name, call |-> call ]

\* The timer functions of the runtime.
RealTimers ==
    [ setTimeout    |-> TimerFn("real", "setTimeout", 0),
      setInterval   |-> TimerFn("real", "setInterval", 0),
      clearTimeout  |-> TimerFn("real", "clearTimeout", 0),
      clearInterval |-> TimerFn("real", "clearInterval", 0) ]

\* const required = ['init', 'handleAction', 'isGameOver', 'getResult', 'getPlayerView']
required == << "init", "handleAction", "isGameOver", "getResult", "getPlayerView" >>

\* An engine module, by the functions it exports.
Implementations == SUBSET { required[i] : i \in 1..Len(required) }

\* The state of the loader: the engine createSocketServer holds, the module
\* loaded last and the message of the error that load threw ("" for none).
\* engine and loaded are {} for none or hold the one module.
Loader(engine, loaded, error) == [ engine |-> engine, loaded |-> loaded, error |-> error ]

\* The reference engine has been loaded.
EngineLoaded ==
    loader = Loader({ { required[i] : i \in 1..Len(required) } },
                    { { required[i] : i \in 1..Len(required) } }, "")

\* No guarded call has been made.
GuardIdle ==
    /\ globalThis = RealTimers
    /\ stack = <<>>
    /\ warned = {}
    /\ console = <<>>
    /\ trace = [ entered |-> 0, invocations |-> <<>>, scheduled |-> 0, exit |-> Null ]

\* Nicknames a client supplies in the handshake query ("" is absent).
Nicknames == {""}

\* Outcomes of Math.random() in init that the model explores.
Secrets == {50, 100}

\* Actions clients send.
Actions ==
    { [type |-> "GUESS", payload |-> [number |-> 50]],
      [type |-> "GUESS", payload |-> [number |-> 100]],
      [type |-> "PING", payload |-> Null] }

PlayerId(n) == [player |-> n]
SocketId(n) == [socket |-> n]

(***************************************************************************)
(* Reference engine: number-guess.                                         *)
(***************************************************************************)
RangeLow == 1
RangeHigh == 100

\* A maximum that is always its first argument.
Max_first(a, b) == a

Max(a, b) == IF a > b THEN a ELSE b
Min(a, b) == IF a < b THEN a ELSE b

engine_init(players, secretNumber) ==
    [ phase |-> "playing",
      players |-> [i \in 1..Len(players) |->
                      [id |-> players[i].id, nickname |-> players[i].nickname]],
      data |-> [ secretNumber |-> secretNumber,
                 low |-> RangeLow,
                 high |-> RangeHigh,
                 currentPlayerIndex |-> 0,
                 lastGuess |-> Null,
                 loserId |-> Null ] ]

\* typeof guess === "number" && Number.isInteger(guess), guess being
\* action.payload?.number.  A payload is null, or holds `number` and, for a
\* value that is not whole, its fractional part `frac` in tenths.
isInteger(payload) ==
    /\ payload # Null
    /\ "number" \in DOMAIN payload
    /\ "frac" \in DOMAIN payload => payload.frac = 0

\* Every call returns a newly built state.
engine_handleAction_allocates_always(state, playerId, action) == TRUE

\* Whether handleAction returns a newly built object (withData(...)) rather
\* than the state object it was given (return state).
engine_handleAction_allocates(state, playerId, action) ==
    /\ state.phase = "playing"
    /\ action.type = "GUESS"
    /\ state.data.currentPlayerIndex + 1 <= Len(state.players)
    /\ state.players[state.data.currentPlayerIndex + 1].id = playerId
    /\ isInteger(action.payload)
    /\ action.payload.number >= state.data.low
    /\ action.payload.number <= state.data.high

engine_handleAction(state, playerId, action) ==
    IF state.phase # "playing" THEN state
    ELSE IF action.type # "GUESS" THEN state
    ELSE LET data == state.data
             index == data.currentPlayerIndex
         IN  IF index + 1 > Len(state.players) THEN state
             ELSE IF state.players[index + 1].id # playerId THEN state
             ELSE LET currentPlayer == state.players[index + 1]
                      guess == action.payload.number
                      playerName == currentPlayer.nickname
                  IN  IF ~isInteger(action.payload) THEN state
                      ELSE IF guess < data.low \/ guess > data.high THEN state
                      ELSE IF guess = data.secretNumber
                      THEN [ state EXCEPT
                               !.phase = "ended",
                               !.data = [ data EXCEPT
                                   !.loserId = playerId,
                                   !.lastGuess = [ playerId |-> playerId,
                                                   playerName |-> playerName,
                                                   guess |-> guess,
                                                   hint |-> "low" ] ] ]
                      ELSE LET hint == IF guess > data.secretNumber
                                       THEN "high" ELSE "low"
                               newLow == IF hint = "low"
                                         THEN Max(data.low, guess + 1)
                                         ELSE data.low
                               newHigh == IF hint = "high"
                                          THEN Min(data.high, guess - 1)
                                          ELSE data.high
                               nextIndex == (index + 1) % Len(state.players)
                           IN  [ state EXCEPT
                                   !.data = [ data EXCEPT
                                       !.low = newLow,
                                       !.high = newHigh,
                                       !.currentPlayerIndex = nextIndex,
                                       !.lastGuess = [ playerId |-> playerId,
                                                       playerName |-> playerName,
                                                       guess |-> guess,
                                                       hint |-> hint ] ] ]

engine_isGameOver(state) == state.phase = "ended"

\* A result in which every seat is a winner.
engine_getResult_allWin(state) ==
    [ rankings |-> [i \in 1..Len(state.players) |->
        [ playerId |-> state.players[i].id, rank |-> 1, score |-> 1,
          isWinner |-> TRUE ]] ]

engine_getResult(state) ==
    [ rankings |-> [i \in 1..Len(state.players) |->
        LET p == state.players[i]
            lost == p.id = state.data.loserId
        IN  [ playerId |-> p.id,
              rank |-> IF lost THEN Len(state.players) ELSE 1,
              score |-> IF lost THEN 0 ELSE 1,
              isWinner |-> ~lost ]] ]

\* A view that is the state itself.
engine_getPlayerView_wholeState(state, playerId) == state

engine_getPlayerView(state, playerId) ==
    LET data == state.data
        visibleData == [ low |-> data.low,
                         high |-> data.high,
                         currentPlayerIndex |-> data.currentPlayerIndex,
                         lastGuess |-> data.lastGuess,
                         loserId |-> data.loserId ]
    IN  [ phase |-> state.phase,
          players |-> state.players,
          data |-> IF state.phase = "ended"
                   THEN [ low |-> data.low,
                          high |-> data.high,
                          currentPlayerIndex |-> data.currentPlayerIndex,
                          lastGuess |-> data.lastGuess,
                          loserId |-> data.loserId,
                          secretNumber |-> data.secretNumber ]
                   ELSE visibleData ]

(***************************************************************************)
(* game-room.ts                                                            *)
(***************************************************************************)
createRoom(gameId) ==
    [ players |-> <<>>, state |-> Null, phase |-> "lobby", gameId |-> gameId ]

\* addPlayer re-binding a returning nickname to the seat id the running
\* game knows it by.
addPlayer_rebind(r, socketId, nickname, id) ==
    LET known == IF r.state = Null THEN {}
                 ELSE { r.state.players[i].id : i \in
                          { j \in 1..Len(r.state.players) :
                              r.state.players[j].nickname = nickname } }
        seated == { r.players[i].id : i \in 1..Len(r.players) }
        free == known \ seated
        player == [ id |-> IF free = {} THEN id ELSE CHOOSE old \in free : TRUE,
                    nickname |-> nickname,
                    avatarUrl |-> Null,
                    isHost |-> Len(r.players) = 0,
                    socketId |-> socketId,
                    ready |-> FALSE ]
    IN  [ r EXCEPT !.players = Append(r.players, player) ]

addPlayer(r, socketId, nickname, id) ==
    LET isHost == Len(r.players) = 0
        player == [ id |-> id,
                    nickname |-> nickname,
                    avatarUrl |-> Null,
                    isHost |-> isHost,
                    socketId |-> socketId,
                    ready |-> FALSE ]
    IN  [ r EXCEPT !.players = Append(r.players, player) ]

\* findIndex: 0 stands for -1.
findIndex(players, socketId) ==
    LET hits == { i \in 1..Len(players) : players[i].socketId = socketId }
    IN  IF hits = {} THEN 0
        ELSE CHOOSE i \in hits : \A j \in hits : i <= j

splice(players, index) ==
    [ i \in 1..(Len(players) - 1) |->
        IF i < index THEN players[i] ELSE players[i + 1] ]

\* removePlayer without the promotion of a new host.
removePlayer_noPromote(r, socketId) ==
    LET index == findIndex(r.players, socketId)
    IN  IF index = 0 THEN r
        ELSE [ r EXCEPT !.players = splice(r.players, index) ]

\* removePlayer promoting the newest seat instead of the oldest.
removePlayer_promoteLast(r, socketId) ==
    LET index == findIndex(r.players, socketId)
    IN  IF index = 0 THEN r
        ELSE LET removed == r.players[index]
                 rest == splice(r.players, index)
             IN  IF removed.isHost /\ Len(rest) > 0
                 THEN [ r EXCEPT !.players = [ rest EXCEPT ![Len(rest)].isHost = TRUE ] ]
                 ELSE [ r EXCEPT !.players = rest ]

\* removePlayer dropping the newest seat instead of the one that left.
removePlayer_pop(r, socketId) ==
    LET index == findIndex(r.players, socketId)
    IN  IF index = 0 THEN r
        ELSE LET removed == r.players[Len(r.players)]
                 rest == splice(r.players, Len(r.players))
             IN  IF removed.isHost /\ Len(rest) > 0
                 THEN [ r EXCEPT !.players = [ rest EXCEPT ![1].isHost = TRUE ] ]
                 ELSE [ r EXCEPT !.players = rest ]

removePlayer(r, socketId) ==
    LET index == findIndex(r.players, socketId)
    IN  IF index = 0 THEN r
        ELSE LET removed == r.players[index]
                 rest == splice(r.players, index)
             IN  IF removed.isHost /\ Len(rest) > 0
                 THEN [ r EXCEPT !.players = [ rest EXCEPT ![1].isHost = TRUE ] ]
                 ELSE [ r EXCEPT !.players = rest ]

getPlayerBySocketId(r, socketId) ==
    LET index == findIndex(r.players, socketId)
    IN  IF index = 0 THEN Null ELSE r.players[index]

setPlayerReady(r, socketId, ready) ==
    LET index == findIndex(r.players, socketId)
    IN  IF index = 0 THEN r
        ELSE [ r EXCEPT !.players[index].ready = ready ]

\* allPlayersReady without the two-seat minimum.
allPlayersReady_noMinimum(r) ==
    \A i \in 1..Len(r.players) : r.players[i].ready

allPlayersReady(r) ==
    Len(r.players) >= 2 /\ \A i \in 1..Len(r.players) : r.players[i].ready

\* The roster as startGame hands it to init.
startPlayers(r) ==
    [ i \in 1..Len(r.players) |->
        [ id |-> r.players[i].id,
          nickname |-> r.players[i].nickname,
          avatarUrl |-> r.players[i].avatarUrl,
          isHost |-> r.players[i].isHost ] ]

startGame(r, secretNumber) ==
    [ r EXCEPT !.state = engine_init(startPlayers(r), secretNumber),
               !.phase = "playing" ]

\* The guard of GameRoom.handleAction without its phase test.
handleActionRuns_noPhaseGuard(r) == r.state # Null

\* Whether GameRoom.handleAction gets past its guard and calls the engine.
handleActionRuns(r) == r.phase = "playing" /\ r.state # Null

handleAction(r, playerId, action) ==
    IF ~handleActionRuns(r) THEN r
    ELSE LET newState == engine_handleAction(r.state, playerId, action)
         IN  [ r EXCEPT !.state = newState,
                        !.phase = IF engine_isGameOver(newState)
                                  THEN "ended" ELSE r.phase ]

\* resetRoom that forgets to drop the engine state.
resetRoom_keepsState(r) ==
    [ r EXCEPT !.phase = "lobby",
               !.players = [ i \in 1..Len(r.players) |->
                               [ r.players[i] EXCEPT !.ready = FALSE ] ] ]

\* resetRoom that leaves the ready flags as they are.
resetRoom_keepsReady(r) ==
    [ r EXCEPT !.state = Null, !.phase = "lobby" ]

resetRoom(r) ==
    [ r EXCEPT !.state = Null,
               !.phase = "lobby",
               !.players = [ i \in 1..Len(r.players) |->
                               [ r.players[i] EXCEPT !.ready = FALSE ] ] ]

(***************************************************************************)
(* socket-server.ts                                                        *)
(***************************************************************************)
engineCall(fn, players, state, playerId, action) ==
    [ fn |-> fn, players |-> players, state |-> state,
      playerId |-> playerId, action |-> action ]

\* The payload of every room:update.
rosterPayload(r) ==
    [ players |-> [ i \in 1..Len(r.players) |->
                      [ id |-> r.players[i].id,
                        nickname |-> r.players[i].nickname,
                        isHost |-> r.players[i].isHost,
                        ready |-> r.players[i].ready ] ],
      phase |-> r.phase ]

\* io.emit('room:update', ...): one message to every connected socket.
roomUpdate(r, sockets) ==
    [ to |-> sockets, event |-> "room:update",
      payload |-> rosterPayload(r), via |-> Null ]

\* A push of room.state itself instead of the seat's view.
stateMessage_unfiltered(r, p) ==
    [ to |-> {p.socketId}, event |-> "game:state",
      payload |-> r.state, via |-> Null ]

\* const view = engine.getPlayerView(room.state, p.id);
\* playerSocket.emit('game:state', view).  "via" records the engine call
\* the payload came from.
stateMessage(r, p) ==
    [ to |-> {p.socketId}, event |-> "game:state",
      payload |-> engine_getPlayerView(r.state, p.id),
      via |-> engineCall("getPlayerView", Null, r.state, p.id, Null) ]

\* A push that reaches the first seat of the roster only.
stateMessages_firstSeat(r, sockets) ==
    LET seats == SelectSeq(r.players, LAMBDA p : p.socketId \in sockets)
    IN  [ i \in 1..Min(1, Len(seats)) |-> stateMessage(r, seats[i]) ]

\* room.players.forEach(p => { ... playerSocket.emit('game:state', view) })
stateMessages(r, sockets) ==
    LET seats == SelectSeq(r.players, LAMBDA p : p.socketId \in sockets)
    IN  [ i \in 1..Len(seats) |-> stateMessage(r, seats[i]) ]

\* io.emit('game:result', engine.getResult(room.state))
resultMessage(r, sockets) ==
    [ to |-> sockets, event |-> "game:result",
      payload |-> engine_getResult(r.state),
      via |-> engineCall("getResult", Null, r.state, Null, Null) ]

viaOf(messages) == [ i \in 1..Len(messages) |-> messages[i].via ]

\* nickname || `Player ${room.players.length + 1}`
connectionNickname(r, nick) ==
    IF nick # "" THEN nick
    ELSE "Player " \o ToString(Len(r.players) + 1)

\* A reconnection push that forgets the ended phase.
sendsCurrentState_playingOnly(r) == r.phase = "playing" /\ r.state # Null

\* The reconnection push of the connection handler.
sendsCurrentState(r) == r.phase \in {"playing", "ended"} /\ r.state # Null

\* The guards of the game:start handler.
mayStart(r, socketId) ==
    /\ getPlayerBySocketId(r, socketId).isHost
    /\ allPlayersReady(r)

\* The guard of the game:action handler.
actionAccepted(r) == r.phase = "playing" \/ r.phase = "ended"

\* Dispatching under socket.id instead of player.id.
actionPlayerId_socketId(b, socketId) == socketId

\* The id game:action dispatches under: the closure's player.id.
actionPlayerId(b, socketId) == b[socketId]

\* A result sent after every accepted action.
sendsResult_always(before, after) == TRUE

\* The game-over check of the game:action handler, after handleAction.
sendsResult(before, after) == after.phase = "ended"

\* A reset any seat may issue.
mayReset_anyone(r, socketId) == TRUE

\* The guard of the game:playAgain handler.
mayReset(r, socketId) == getPlayerBySocketId(r, socketId).isHost

Event(type, socketId, arg) == [ type |-> type, socketId |-> socketId, arg |-> arg ]

Init ==
    /\ room = createRoom("dev-game")
    /\ bound = [ s \in {} |-> Null ]
    /\ joined = 0
    /\ lastEvent = Event("listen", Null, Null)
    /\ outbox = <<>>
    /\ calls = <<>>
    /\ GuardIdle
    /\ sim = Null
    /\ rebuilder = Null
    /\ tester = Null
    /\ EngineLoaded

\* io.on('connection', ...)
Connection(nick) ==
    /\ joined < MaxJoins
    /\ UNCHANGED guardVars
    /\ UNCHANGED loader
    /\ UNCHANGED sim
    /\ UNCHANGED rebuilder
    /\ UNCHANGED tester
    /\ LET socketId == SocketId(joined + 1)
           id == PlayerId(joined + 1)
           r == addPlayer(room, socketId, connectionNickname(room, nick), id)
           sockets == DOMAIN bound \cup {socketId}
           player == r.players[Len(r.players)]
           push == IF sendsCurrentState(r)
                   THEN << stateMessage(r, player) >> ELSE <<>>
       IN  /\ room' = r
           /\ bound' = [ s \in sockets |-> IF s = socketId THEN id ELSE bound[s] ]
           /\ joined' = joined + 1
           /\ lastEvent' = Event("connection", socketId, nick)
           /\ outbox' = << roomUpdate(r, sockets) >> \o push
           /\ calls' = viaOf(push)

\* socket.on('player:ready', ...)
PlayerReady(socketId, ready) ==
    /\ socketId \in DOMAIN bound
    /\ UNCHANGED guardVars
    /\ UNCHANGED loader
    /\ UNCHANGED sim
    /\ UNCHANGED rebuilder
    /\ UNCHANGED tester
    /\ LET r == setPlayerReady(room, socketId, ready)
       IN  /\ room' = r
           /\ outbox' = << roomUpdate(r, DOMAIN bound) >>
           /\ calls' = <<>>
    /\ lastEvent' = Event("player:ready", socketId, ready)
    /\ UNCHANGED <<bound, joined>>

\* socket.on('game:start', ...)
GameStart(socketId) ==
    /\ socketId \in DOMAIN bound
    /\ UNCHANGED guardVars
    /\ UNCHANGED loader
    /\ UNCHANGED sim
    /\ UNCHANGED rebuilder
    /\ UNCHANGED tester
    /\ lastEvent' = Event("game:start", socketId, Null)
    /\ UNCHANGED <<bound, joined>>
    /\ IF ~mayStart(room, socketId)
       THEN /\ UNCHANGED room
            /\ outbox' = <<>>
            /\ calls' = <<>>
       ELSE \E secretNumber \in Secrets :
            LET r == startGame(room, secretNumber)
                views == stateMessages(r, DOMAIN bound)
            IN  /\ room' = r
                /\ outbox' = views \o << roomUpdate(r, DOMAIN bound) >>
                /\ calls' = << engineCall("init", startPlayers(room), Null, Null, Null) >>
                            \o viaOf(views)

\* The result is broadcast before the views are pushed.
actionOutbox_resultFirst(views, result, update) == result \o views \o << update >>

\* The order in which the game:action handler emits: the seats' views, the
\* result if the phase is ended, the roster update.
actionOutbox(views, result, update) == views \o result \o << update >>

\* socket.on('game:action', ...)
GameAction(socketId, action) ==
    /\ socketId \in DOMAIN bound
    /\ UNCHANGED guardVars
    /\ UNCHANGED loader
    /\ UNCHANGED sim
    /\ UNCHANGED rebuilder
    /\ UNCHANGED tester
    /\ lastEvent' = Event("game:action", socketId, action)
    /\ UNCHANGED <<bound, joined>>
    /\ IF ~actionAccepted(room)
       THEN /\ UNCHANGED room
            /\ outbox' = <<>>
            /\ calls' = <<>>
       ELSE LET playerId == actionPlayerId(bound, socketId)
                r == handleAction(room, playerId, action)
                views == stateMessages(r, DOMAIN bound)
                result == IF sendsResult(room, r)
                          THEN << resultMessage(r, DOMAIN bound) >> ELSE <<>>
                engineCalls ==
                    IF handleActionRuns(room)
                    THEN << engineCall("handleAction", Null, room.state, playerId, action),
                            engineCall("isGameOver", Null, r.state, Null, Null) >>
                    ELSE <<>>
            IN  /\ room' = r
                /\ outbox' = actionOutbox(views, result, roomUpdate(r, DOMAIN bound))
                /\ calls' = engineCalls \o viaOf(views) \o viaOf(result)

\* socket.on('game:playAgain', ...)
GamePlayAgain(socketId) ==
    /\ socketId \in DOMAIN bound
    /\ UNCHANGED guardVars
    /\ UNCHANGED loader
    /\ UNCHANGED sim
    /\ UNCHANGED rebuilder
    /\ UNCHANGED tester
    /\ lastEvent' = Event("game:playAgain", socketId, Null)
    /\ UNCHANGED <<bound, joined>>
    /\ calls' = <<>>
    /\ IF ~mayReset(room, socketId)
       THEN /\ UNCHANGED room
            /\ outbox' = <<>>
       ELSE LET r == resetRoom(room)
            IN  /\ room' = r
                /\ outbox' = << roomUpdate(r, DOMAIN bound) >>

\* socket.on('disconnect', ...): the socket has already left io.sockets.
Disconnect(socketId) ==
    /\ socketId \in DOMAIN bound
    /\ UNCHANGED guardVars
    /\ UNCHANGED loader
    /\ UNCHANGED sim
    /\ UNCHANGED rebuilder
    /\ UNCHANGED tester
    /\ LET r == removePlayer(room, socketId)
           sockets == DOMAIN bound \ {socketId}
           removed == getPlayerBySocketId(room, socketId)
       IN  /\ room' = r
           /\ bound' = [ s \in sockets |-> bound[s] ]
           /\ outbox' = IF removed # Null
                        THEN << roomUpdate(r, sockets) >> ELSE <<>>
    /\ lastEvent' = Event("disconnect", socketId, Null)
    /\ calls' = <<>>
    /\ UNCHANGED joined

Next ==
    \/ \E nick \in Nicknames : Connection(nick)
    \/ \E s \in DOMAIN bound, ready \in BOOLEAN : PlayerReady(s, ready)
    \/ \E s \in DOMAIN bound : GameStart(s)
    \/ \E s \in DOMAIN bound, action \in Actions : GameAction(s, action)
    \/ \E s \in DOMAIN bound : GamePlayAgain(s)
    \/ \E s \in DOMAIN bound : Disconnect(s)

Spec == Init /\ [][Next]_vars

TypeOK ==
    /\ room.phase \in {"lobby", "ready", "playing", "ended"}
    /\ joined \in 0..MaxJoins
    /\ Len(room.players) = Cardinality(DOMAIN bound)

(***************************************************************************)
(* Properties                                                              *)
(***************************************************************************)
hosts(players) == { i \in 1..Len(players) : players[i].isHost }
idsOf(players) == [ i \in 1..Len(players) |-> players[i].id ]
seatOf(r, socketId) == getPlayerBySocketId(r, socketId)
fnsOf(cs) == { cs[i].fn : i \in 1..Len(cs) }
eventsOf(ms) == { ms[i].event : i \in 1..Len(ms) }

\* C1: after every room event the engine state is null exactly when the
\* phase is lobby or ready, and non-null exactly when it is playing or ended.
C1_StateNullIffLobby ==
    /\ (room.state = Null) <=> (room.phase \in {"lobby", "ready"})
    /\ (room.state # Null) <=> (room.phase \in {"playing", "ended"})

C1_Witness ==
    /\ lastEvent.type = "game:action"
    /\ room.phase = "ended"
    /\ room.state # Null

\* C2: a non-empty roster has exactly one host, an empty roster has none.
C2_ExactlyOneHost ==
    Cardinality(hosts(room.players)) = IF Len(room.players) = 0 THEN 0 ELSE 1

C2_Witness ==
    /\ lastEvent.type = "disconnect"
    /\ Len(room.players) >= 1
    /\ room.players[1].id # PlayerId(1)
    /\ room.players[1].isHost

\* C3: removing the host makes the earliest joined remaining seat the host
\* within the same removal; removing another seat leaves the host alone;
\* the remaining seats keep their relative order.
C3_HostTransfer ==
    [][ lastEvent'.type = "disconnect" =>
          LET before == room.players
              after == room'.players
              gone == seatOf(room, lastEvent'.socketId)
          IN  /\ idsOf(after) = SelectSeq(idsOf(before), LAMBDA id : id # gone.id)
              /\ (gone.isHost /\ Len(after) > 0) =>
                    \E i \in hosts(after) :
                        \A j \in 1..Len(after) :
                            after[i].id.player <= after[j].id.player
              /\ ~gone.isHost =>
                    { after[i].id : i \in hosts(after) }
                        = { before[i].id : i \in hosts(before) }
      ]_vars

C3_Witness ==
    /\ lastEvent.type = "disconnect"
    /\ Len(room.players) = 2
    /\ room.players[1].id = PlayerId(2)
    /\ room.players[1].isHost
    /\ room.players[2].id = PlayerId(3)

\* C4: every game:state message goes to one seat's connection and is the
\* output of getPlayerView(current engine state, that seat's id): never the
\* engine state sent as it is, never a view computed for another seat.
C4_ViewsAreOwn ==
    \A k \in 1..Len(outbox) :
        outbox[k].event = "game:state" =>
            \E s \in DOMAIN bound :
                /\ outbox[k].to = {s}
                /\ outbox[k].payload = engine_getPlayerView(room.state, seatOf(room, s).id)
                /\ outbox[k].via = engineCall("getPlayerView", Null, room.state,
                                              seatOf(room, s).id, Null)

C4_Witness ==
    /\ room.phase = "playing"
    /\ Len(room.players) >= 2
    /\ Cardinality({ k \in 1..Len(outbox) : outbox[k].event = "game:state" }) >= 2

\* C5: a start event changes the room only when its issuer is the host and
\* the roster has at least 2 seats, all ready; then the engine state becomes
\* init(current roster) and the phase playing.  Otherwise nothing changes.
C5_StartGuard ==
    [][ lastEvent'.type = "game:start" =>
          LET issuer == seatOf(room, lastEvent'.socketId)
              ok == /\ issuer.isHost
                    /\ Len(room.players) >= 2
                    /\ \A i \in 1..Len(room.players) : room.players[i].ready
          IN  IF ok
              THEN /\ room'.phase = "playing"
                   /\ room'.players = room.players
                   /\ room'.state.data.secretNumber \in RangeLow..RangeHigh
                   /\ room'.state = engine_init(startPlayers(room),
                                                room'.state.data.secretNumber)
                   /\ idsOf(room'.state.players) = idsOf(room.players)
              ELSE /\ room' = room
                   /\ calls' = <<>>
      ]_vars

C5_Witness ==
    /\ lastEvent.type = "game:start"
    /\ Len(calls) > 0
    /\ calls[1].fn = "init"
    /\ room.phase = "playing"

\* C6: the phase changes only lobby -> playing by a start, playing -> ended
\* by an action and playing/ended -> lobby by a reset; in particular ended
\* never goes back to playing without a reset.
C6_PhaseEdges ==
    [][ room'.phase # room.phase =>
          \/ /\ room.phase = "lobby"
             /\ room'.phase = "playing"
             /\ lastEvent'.type = "game:start"
          \/ /\ room.phase = "playing"
             /\ room'.phase = "ended"
             /\ lastEvent'.type = "game:action"
          \/ /\ room.phase \in {"playing", "ended"}
             /\ room'.phase = "lobby"
             /\ lastEvent'.type = "game:playAgain"
      ]_vars

\* C7: init is invoked at most once per round: a start event processed
\* while the phase is playing or ended neither calls init nor replaces the
\* engine state of the running game.
C7_InitOncePerRound ==
    [][ (lastEvent'.type = "game:start" /\ room.phase \in {"playing", "ended"}) =>
          /\ "init" \notin fnsOf(calls')
          /\ room'.state = room.state
      ]_vars

\* C8: the result is broadcast in the action event that moves the phase
\* from playing to ended and in no other event; an action received while
\* the phase is already ended does not broadcast it again.
C8_ResultOnce ==
    [][ ("game:result" \in eventsOf(outbox')) <=>
          /\ lastEvent'.type = "game:action"
          /\ room.phase = "playing"
          /\ room'.phase = "ended"
      ]_vars

\* C9: an action event processed while the phase is ended does not invoke
\* the engine's handleAction and leaves the engine state unchanged.
C9_NoTurnsAfterEnd ==
    [][ (lastEvent'.type = "game:action" /\ room.phase = "ended") =>
          /\ "handleAction" \notin fnsOf(calls')
          /\ room'.state = room.state
          /\ room'.phase = "ended"
      ]_vars

C9_Witness ==
    /\ lastEvent.type = "game:action"
    /\ room.phase = "ended"
    /\ Len(calls) > 0
    /\ calls[1].fn = "getPlayerView"

\* C10: an action event processed while the phase is playing sets the engine
\* state to handleAction(state before, s, action), s being the id of the seat
\* bound to the sending connection, whatever the action is.
C10_DispatchUnderSender ==
    [][ (lastEvent'.type = "game:action" /\ room.phase = "playing") =>
          LET s == seatOf(room, lastEvent'.socketId).id
              action == lastEvent'.arg
          IN  /\ room'.state = engine_handleAction(room.state, s, action)
              /\ calls'[1] = engineCall("handleAction", Null, room.state, s, action)
              /\ \A k \in 1..Len(calls') :
                    calls'[k].fn = "handleAction" => k = 1
      ]_vars

C10_Witness ==
    /\ lastEvent.type = "game:action"
    /\ Len(calls) > 0
    /\ calls[1].fn = "handleAction"
    /\ calls[1].playerId = seatOf(room, lastEvent.socketId).id
    /\ room.state # calls[1].state
    /\ room.phase = "playing"

\* Seat ids handed out by the connections accepted so far.
issuedIds(n) == { PlayerId(k) : k \in 1..n }
callsOf(cs, fn) == { i \in 1..Len(cs) : cs[i].fn = fn }
messagesOf(ms, event) == { i \in 1..Len(ms) : ms[i].event = event }

\* C11: whenever the orchestrator calls getResult(s), isGameOver(s) is true
\* of that same state s.
C11_ResultOnlyWhenOver ==
    \A k \in callsOf(calls, "getResult") :
        /\ calls[k].state # Null
        /\ engine_isGameOver(calls[k].state)
        /\ calls[k].state = room.state

C11_Witness ==
    /\ callsOf(calls, "getResult") # {}
    /\ callsOf(calls, "handleAction") # {}
    /\ room.phase = "ended"

\* C12: a reset issued by the host, in any phase, sets the engine state to
\* null, the phase to lobby and every ready flag to false, and leaves the
\* seats, their order, ids, names and host as they were.
C12_ResetEffect ==
    [][ (lastEvent'.type = "game:playAgain"
            /\ seatOf(room, lastEvent'.socketId).isHost) =>
          /\ room'.state = Null
          /\ room'.phase = "lobby"
          /\ Len(room'.players) = Len(room.players)
          /\ \A i \in 1..Len(room.players) :
                room'.players[i] = [ room.players[i] EXCEPT !.ready = FALSE ]
          /\ room'.gameId = room.gameId
      ]_vars

C12_Witness ==
    /\ lastEvent.type = "game:playAgain"
    /\ seatOf(room, lastEvent.socketId).isHost
    /\ Len(outbox) = 1
    /\ Len(room.players) >= 2
    /\ room.phase = "lobby"
    /\ room.state = Null

\* C13: a start or a reset from a seat that is not the host, and an action
\* received while the phase is lobby, change nothing in the room, call no
\* engine function and send no message.
C13_ViolationsIgnored ==
    [][ LET type == lastEvent'.type
            isHost == seatOf(room, lastEvent'.socketId).isHost
        IN  (\/ type \in {"game:start", "game:playAgain"} /\ ~isHost
             \/ type = "game:action" /\ room.phase = "lobby") =>
              /\ room' = room
              /\ bound' = bound
              /\ calls' = <<>>
              /\ outbox' = <<>>
      ]_vars

C13_Witness ==
    /\ lastEvent.type = "game:playAgain"
    /\ ~seatOf(room, lastEvent.socketId).isHost
    /\ room.phase = "ended"
    /\ \E i \in 1..Len(room.players) : room.players[i].ready
    /\ outbox = <<>>

\* C14: a disconnect removes exactly the seat bound to the disconnecting
\* connection and changes neither the phase nor the engine state, also
\* mid-game and when the seat removed is the one whose turn it is.
C14_DisconnectFrame ==
    [][ lastEvent'.type = "disconnect" =>
          LET gone == seatOf(room, lastEvent'.socketId)
          IN  /\ gone.id = bound[lastEvent'.socketId]
              /\ room'.phase = room.phase
              /\ room'.state = room.state
              /\ Len(room'.players) = Len(room.players) - 1
              /\ { room'.players[i].id : i \in 1..Len(room'.players) }
                    = { room.players[i].id : i \in 1..Len(room.players) } \ {gone.id}
              /\ DOMAIN bound' = DOMAIN bound \ {lastEvent'.socketId}
      ]_vars

C14_Witness ==
    /\ lastEvent.type = "disconnect"
    /\ room.phase = "playing"
    /\ Len(room.players) >= 1
    /\ LET turn == room.state.players[room.state.data.currentPlayerIndex + 1].id
       IN  /\ turn.player = lastEvent.socketId.socket
           /\ \A i \in 1..Len(room.players) : room.players[i].id # turn

C16_JoinPush ==
    [][ lastEvent'.type = "connection" =>
          LET seat == room'.players[Len(room'.players)]
              pushes == messagesOf(outbox', "game:state")
          IN  IF room.phase \in {"playing", "ended"}
              THEN /\ Cardinality(pushes) = 1
                   /\ \A k \in pushes :
                         /\ outbox'[k].to = {lastEvent'.socketId}
                         /\ outbox'[k].payload = engine_getPlayerView(room.state, seat.id)
                         /\ outbox'[k].via = engineCall("getPlayerView", Null,
                                                        room.state, seat.id, Null)
                   /\ room'.state = room.state
              ELSE pushes = {}
      ]_vars

C16_Witness ==
    /\ lastEvent.type = "connection"
    /\ room.phase = "ended"
    /\ Len(room.players) >= 2
    /\ messagesOf(outbox, "game:state") # {}

(***************************************************************************)
(* The same server with the debug page among its clients: Debug.tsx        *)
(* connects with the nickname __debug__.                                   *)
(***************************************************************************)
DebugNicknames == {"", "__debug__"}

NextDebug ==
    \/ \E nick \in DebugNicknames : Connection(nick)
    \/ \E s \in DOMAIN bound, ready \in BOOLEAN : PlayerReady(s, ready)
    \/ \E s \in DOMAIN bound : GameStart(s)
    \/ \E s \in DOMAIN bound, action \in Actions : GameAction(s, action)
    \/ \E s \in DOMAIN bound : GamePlayAgain(s)
    \/ \E s \in DOMAIN bound : Disconnect(s)

SpecDebug == Init /\ [][NextDebug]_vars

isDebugSeat(p) == p.nickname = "__debug__"

\* C17: an observer/debug connection never creates a seat: its connect and
\* its disconnect leave the roster (and with it the host and the start
\* precondition) as it was, and it never becomes host.
C17_ObserverNoSeat ==
    [][ /\ (lastEvent'.type = "connection" /\ lastEvent'.arg = "__debug__") =>
              /\ room'.players = room.players
              /\ allPlayersReady(room') = allPlayersReady(room)
        /\ (lastEvent'.type = "disconnect"
                /\ isDebugSeat(seatOf(room, lastEvent'.socketId))) =>
              room'.players = room.players
        /\ \A i \in 1..Len(room'.players) :
              isDebugSeat(room'.players[i]) => ~room'.players[i].isHost
      ]_vars

names(players) == { players[i].nickname : i \in 1..Len(players) }

\* C18: at every moment no two seats of the roster have the same display
\* name.
C18_UniqueNames ==
    Cardinality(names(room.players)) = Len(room.players)

(***************************************************************************)
(* Auto-naming: getNextAvailableName of game-room.ts, applied to rooms      *)
(* built by addPlayer and removePlayer.                                    *)
(***************************************************************************)
PLAYER_NAMES == << "Alice", "Bob", "Carol", "Dave", "Eve", "Frank", "Grace", "Heidi" >>

\* `Player ${k}`
fallbackName(k) == "Player " \o ToString(k)

\* The first of Player k, Player k+1, ... that is not in use.
RECURSIVE nextFallback(_, _)
nextFallback(usedNames, k) ==
    IF fallbackName(k) \in usedNames
    THEN nextFallback(usedNames, k + 1)
    ELSE fallbackName(k)

firstFree(usedNames) ==
    LET free == { i \in 1..Len(PLAYER_NAMES) : PLAYER_NAMES[i] \notin usedNames }
    IN  IF free = {} THEN 0
        ELSE CHOOSE i \in free : \A j \in free : i <= j

\* The fallback searched from the first number after the pool, whatever
\* the number of seats.
getNextAvailableName_fromPoolSize(r) ==
    LET usedNames == names(r.players)
        free == { k \in (Len(PLAYER_NAMES) + 1)..(Len(PLAYER_NAMES) + Len(r.players) + 1) :
                    fallbackName(k) \notin usedNames }
    IN  IF firstFree(usedNames) # 0
        THEN PLAYER_NAMES[firstFree(usedNames)]
        ELSE fallbackName(CHOOSE k \in free : \A j \in free : k <= j)

\* The fallback taken as soon as the room has as many seats as the pool
\* has names.
getNextAvailableName_byCount(r) ==
    LET usedNames == names(r.players)
    IN  IF Len(r.players) < Len(PLAYER_NAMES) /\ firstFree(usedNames) # 0
        THEN PLAYER_NAMES[firstFree(usedNames)]
        ELSE nextFallback(usedNames, Len(r.players) + 1)

\* The fallback without the search for an unused number.
getNextAvailableName_noSearch(r) ==
    LET usedNames == names(r.players)
    IN  IF firstFree(usedNames) # 0
        THEN PLAYER_NAMES[firstFree(usedNames)]
        ELSE fallbackName(Len(r.players) + 1)

getNextAvailableName(r) ==
    LET usedNames == names(r.players)
    IN  IF firstFree(usedNames) # 0
        THEN PLAYER_NAMES[firstFree(usedNames)]
        ELSE nextFallback(usedNames, Len(r.players) + 1)

\* Auto-named connections accepted in one run.
MaxAutoJoins == 1

\* Names seats hold when the run begins: the pool and two fallback names.
SeatedNames == PLAYER_NAMES \o << "Player 9", "Player 10" >>

\* The room after seats i in S joined, in index order, as SeatedNames[i].
RECURSIVE seatAll(_, _)
seatAll(r, S) ==
    IF S = {} THEN r
    ELSE LET i == CHOOSE k \in S : \A j \in S : k <= j
         IN  seatAll(addPlayer(r, SocketId(i), SeatedNames[i], PlayerId(i)),
                     S \ {i})

InitNames ==
    \E S \in SUBSET (1..Len(SeatedNames)) :
        /\ room = seatAll(createRoom("dev-game"), S)
        /\ bound = [ s \in { SocketId(i) : i \in S } |-> PlayerId(s.socket) ]
        /\ joined = 0
        /\ lastEvent = Event("listen", Null, Null)
        /\ outbox = <<>>
        /\ calls = <<>>
        /\ GuardIdle
        /\ sim = Null
        /\ rebuilder = Null
        /\ tester = Null
        /\ EngineLoaded

\* A seat is added under the name getNextAvailableName gives for the room.
AddAutoNamed ==
    /\ joined < MaxAutoJoins
    /\ UNCHANGED guardVars
    /\ UNCHANGED loader
    /\ UNCHANGED sim
    /\ UNCHANGED rebuilder
    /\ UNCHANGED tester
    /\ LET n == Len(SeatedNames) + joined + 1
           socketId == SocketId(n)
           id == PlayerId(n)
           nickname == getNextAvailableName(room)
       IN  /\ room' = addPlayer(room, socketId, nickname, id)
           /\ bound' = [ s \in DOMAIN bound \cup {socketId} |->
                            IF s = socketId THEN id ELSE bound[s] ]
           /\ joined' = joined + 1
           /\ lastEvent' = Event("addPlayer:auto", socketId, nickname)
           /\ outbox' = <<>>
           /\ calls' = <<>>

NextNames ==
    \/ AddAutoNamed
    \/ \E s \in DOMAIN bound : Disconnect(s)

SpecNames == InitNames /\ [][NextNames]_vars

poolNames == { PLAYER_NAMES[i] : i \in 1..Len(PLAYER_NAMES) }

C20_FirstFreePoolName ==
    (poolNames \ names(room.players) # {}) =>
        \E i \in 1..Len(PLAYER_NAMES) :
            /\ getNextAvailableName(room) = PLAYER_NAMES[i]
            /\ PLAYER_NAMES[i] \notin names(room.players)
            /\ \A j \in 1..(i - 1) : PLAYER_NAMES[j] \in names(room.players)

\* With eight seats in the room and Bob and Dave unheld, the auto-named
\* ninth seat got Bob rather than a later pool name or a fallback.
C20_Witness ==
    /\ lastEvent.type = "addPlayer:auto"
    /\ lastEvent.arg = "Bob"
    /\ Len(room.players) = 9
    /\ room.players[9].nickname = "Bob"
    /\ room.players[1].nickname = "Alice"
    /\ room.players[2].nickname = "Carol"
    /\ "Player 10" \in names(room.players)
    /\ "Dave" \notin names(room.players)
    /\ getNextAvailableName(room) = "Dave"

MaxGuardedCalls == 2

\* Guarded calls in progress at once.
MaxDepth == 2

\* Invocations of a global timer between two calls made by the host.
MaxInvocations == 2

EngineFns == { "init", "handleAction", "isGameOver", "getResult", "getPlayerView" }

\* The functions whose result createSandboxedEngine hands to
\* checkStateSerializable.
ScannedFns == { "init", "handleAction" }

\* The arguments each function takes.
argsOf(fn) ==
    CASE fn = "init" -> << "players", "options" >>
      [] fn = "handleAction" -> << "state", "playerId", "action" >>
      [] fn = "getPlayerView" -> << "state", "playerId" >>
      [] OTHER -> << "state" >>

createNoopTimer(name, call) == TimerFn("noop", name, call)

\* The bindings withTimerGuard installs for its call.
NoopTimers(call) ==
    [ setTimeout    |-> createNoopTimer("setTimeout", call),
      setInterval   |-> createNoopTimer("setInterval", call),
      clearTimeout  |-> TimerFn("empty", "clearTimeout", call),
      clearInterval |-> TimerFn("empty", "clearInterval", call) ]

\* The no-op warns on every invocation.
warns_always(f, flags) == TRUE

\* if (!warned)
warns(f, flags) == f \notin flags

\* A timer function is invoked: what it returns, whether it schedules its
\* callback and whether it writes an advisory.
invoke(f, flags, handle) ==
    IF f.kind = "noop"
    THEN [ returned |-> 0, schedules |-> FALSE, advisory |-> warns(f, flags) ]
    ELSE [ returned |-> handle, schedules |-> TRUE, advisory |-> FALSE ]

\* The bindings are put back only when fn returns.
afterGuard_noFinally(orig, current, threw) == IF threw THEN current ELSE orig

\* try { return fn() } finally { restore }: the bindings in place once
\* withTimerGuard is left, by return or by throw.
afterGuard(orig, current, threw) == orig

\* JavaScript values: primitives and built-in objects by type, plain objects
\* and arrays by their address in a heap of cells.
JsValue(t) == [ t |-> t, at |-> 0 ]
JsObject(at) == [ t |-> "object", at |-> at ]
JsArray(at) == [ t |-> "array", at |-> at ]
Entry(key, val) == [ key |-> key, val |-> val ]

\* { phase: 'playing', players: [], data: {} }
StatePlain ==
    [ root |-> JsObject(1),
      heap |-> << << Entry("phase", JsValue("string")), Entry("players", JsArray(2)),
                     Entry("data", JsObject(3)) >>,
                  << >>,
                  << >> >> ]

\* { nested: { deep: { items: new Set() } }, lookup: new Map(), at: new Date() }
StateNested ==
    [ root |-> JsObject(1),
      heap |-> << << Entry("nested", JsObject(2)), Entry("lookup", JsValue("Map")),
                     Entry("at", JsValue("Date")) >>,
                  << Entry("deep", JsObject(3)) >>,
                  << Entry("items", JsValue("Set")) >> >> ]

\* { list: [1, () => {}, /x/] }
StateArray ==
    [ root |-> JsObject(1),
      heap |-> << << Entry("list", JsArray(2)) >>,
                  << Entry("", JsValue("number")), Entry("", JsValue("function")),
                     Entry("", JsValue("RegExp")) >> >> ]

\* { winner: undefined, ok: true, none: null }
StateUndefinedKey ==
    [ root |-> JsObject(1),
      heap |-> << << Entry("winner", JsValue("undefined")), Entry("ok", JsValue("boolean")),
                     Entry("none", JsValue("null")) >> >> ]

\* { items: [1, undefined] }
StateUndefinedItem ==
    [ root |-> JsObject(1),
      heap |-> << << Entry("items", JsArray(2)) >>,
                  << Entry("", JsValue("number")), Entry("", JsValue("undefined")) >> >> ]

\* const s = { phase: 'playing' }; s.self = s
StateCyclic ==
    [ root |-> JsObject(1),
      heap |-> << << Entry("phase", JsValue("string")), Entry("self", JsObject(1)) >> >> ]

\* null
StateNull == [ root |-> JsValue("null"), heap |-> << >> ]

\* Values the wrapped engine returns.
ReturnedStates ==
    { StatePlain, StateNested, StateArray, StateUndefinedKey,
      StateUndefinedItem, StateCyclic, StateNull }

\* What the wrapped function may return: any of the states from init and
\* handleAction, one value that JSON cannot carry from the other three.
returnsOf(fn) == IF fn \in ScannedFns THEN ReturnedStates ELSE { StateNested }

Warning(what, path) == [ what |-> what, at |-> "state" \o path ]

\* walkObject(obj, path, warnings).  onPath holds the objects whose walk is
\* in progress: meeting one of them again is a recursion without end, which
\* the runtime ends with a RangeError (overflow).
RECURSIVE walkObject(_, _, _, _)
RECURSIVE walkEntries(_, _, _, _, _, _)
walkEntries(heap, obj, i, path, onPath, acc) ==
    IF i > Len(heap[obj.at])
    THEN [ overflow |-> FALSE, warnings |-> acc ]
    ELSE LET e == heap[obj.at][i]
             child == IF obj.t = "array"
                      THEN path \o "[" \o ToString(i - 1) \o "]"
                      ELSE path \o "." \o e.key
             sub == IF obj.t = "object" /\ e.val.t = "undefined"
                    THEN [ overflow |-> FALSE,
                           warnings |-> << Warning("undefined", child) >> ]
                    ELSE walkObject(heap, e.val, child, onPath \cup {obj.at})
         IN  IF sub.overflow
             THEN [ overflow |-> TRUE, warnings |-> << >> ]
             ELSE walkEntries(heap, obj, i + 1, path, onPath, acc \o sub.warnings)

walkObject(heap, obj, path, onPath) ==
    IF obj.t \in { "null", "undefined" }
    THEN [ overflow |-> FALSE, warnings |-> << >> ]
    ELSE IF obj.t \in { "function", "Map", "Set", "Date", "RegExp" }
    THEN [ overflow |-> FALSE, warnings |-> << Warning(obj.t, path) >> ]
    ELSE IF obj.t \notin { "object", "array" }
    THEN [ overflow |-> FALSE, warnings |-> << >> ]
    ELSE IF obj.at \in onPath
    THEN [ overflow |-> TRUE, warnings |-> << >> ]
    ELSE walkEntries(heap, obj, 1, path, onPath, << >>)

\* A console.warn line of the guard.
Advisory(kind, subject, at, context, call) ==
    [ kind |-> kind, subject |-> subject, at |-> at, context |-> context, call |-> call ]

\* checkStateSerializable(state, context): the advisories it writes, or the
\* error it throws before writing any.
checkStateSerializable(state, context, call) ==
    IF state.root.t \in { "null", "undefined" }
    THEN [ threw |-> FALSE, advisories |-> << >> ]
    ELSE LET walk == walkObject(state.heap, state.root, "", {})
         IN  IF walk.overflow
             THEN [ threw |-> TRUE, advisories |-> << >> ]
             ELSE [ threw |-> FALSE,
                    advisories |->
                        [ i \in 1..Len(walk.warnings) |->
                            Advisory("serialization", walk.warnings[i].what,
                                     walk.warnings[i].at, context, call) ] ]

Outcome(kind, value, error) == [ kind |-> kind, value |-> value, error |-> error ]

\* What a function of createSandboxedEngine does once the wrapped function
\* has returned v: the scan for init and handleAction, then return v.
sandboxedReturn(fn, v, call) ==
    LET scan == IF fn \in ScannedFns
                THEN checkStateSerializable(v, fn \o "()", call)
                ELSE [ threw |-> FALSE, advisories |-> << >> ]
    IN  [ advisories |-> scan.advisories,
          outcome |-> IF scan.threw
                      THEN Outcome("threw", Null, "RangeError")
                      ELSE Outcome("returned", v, "") ]

InitGuard ==
    /\ room = createRoom("dev-game")
    /\ bound = [ s \in {} |-> Null ]
    /\ joined = 0
    /\ lastEvent = Event("listen", Null, Null)
    /\ outbox = <<>>
    /\ calls = <<>>
    /\ GuardIdle
    /\ sim = Null
    /\ rebuilder = Null
    /\ tester = Null
    /\ EngineLoaded

\* A function of the sandboxed engine is called: withTimerGuard saves the
\* bindings, installs the no-ops and calls the wrapped function.
\* console and trace hold what happened since the host made its last call.
GuardedCall(fn) ==
    /\ trace.entered < MaxGuardedCalls
    /\ Len(stack) < MaxDepth
    /\ LET call == trace.entered + 1
       IN  /\ stack' = Append(stack, [ fn |-> fn, call |-> call, args |-> argsOf(fn),
                                       passed |-> argsOf(fn), orig |-> globalThis ])
           /\ globalThis' = NoopTimers(call)
           /\ trace' = IF stack = <<>>
                       THEN [ entered |-> call, invocations |-> <<>>,
                              scheduled |-> 0, exit |-> Null ]
                       ELSE [ trace EXCEPT !.entered = call ]
    /\ console' = IF stack = <<>> THEN <<>> ELSE console
    /\ UNCHANGED warned
    /\ UNCHANGED roomVars
    /\ UNCHANGED loader
    /\ UNCHANGED sim
    /\ UNCHANGED rebuilder
    /\ UNCHANGED tester

\* globalThis.setTimeout(...) or globalThis.setInterval(...) is invoked, by
\* the engine function in progress or, with no call in progress, by the host.
InvokeTimer(name) ==
    /\ Len(trace.invocations) < MaxInvocations
    /\ LET f == globalThis[name]
           r == invoke(f, warned, trace.scheduled + 1)
       IN  /\ console' = IF r.advisory
                         THEN Append(console, Advisory("timer", name, "", "", f.call))
                         ELSE console
           /\ warned' = IF f.kind = "noop" THEN warned \cup {f} ELSE warned
           /\ trace' = [ trace EXCEPT
                           !.invocations = Append(@, [ f |-> f, depth |-> Len(stack),
                                                       returned |-> r.returned,
                                                       scheduled |-> r.schedules ]),
                           !.scheduled = IF r.schedules THEN @ + 1 ELSE @ ]
    /\ UNCHANGED <<globalThis, stack>>
    /\ UNCHANGED roomVars
    /\ UNCHANGED loader
    /\ UNCHANGED sim
    /\ UNCHANGED rebuilder
    /\ UNCHANGED tester

\* The no-ops of a call that was left are bound to no global any more:
\* their flags are dropped.
reachableFlags(flags, call) == { f \in flags : f.call # call }

\* The record of a call that was left: `after` are the global bindings its
\* caller finds.
Exit(top, wrapped, sandboxed, advisories, after) ==
    [ fn |-> top.fn, call |-> top.call, args |-> top.args, passed |-> top.passed,
      installedBefore |-> top.orig, after |-> after, wrapped |-> wrapped,
      sandboxed |-> sandboxed, advisories |-> advisories ]

\* The wrapped function of the innermost call returns v.
EngineReturns(v) ==
    /\ stack # <<>>
    /\ v \in returnsOf(stack[Len(stack)].fn)
    /\ LET top == stack[Len(stack)]
           done == sandboxedReturn(top.fn, v, top.call)
       IN  /\ globalThis' = afterGuard(top.orig, globalThis, FALSE)
           /\ console' = console \o done.advisories
           /\ trace' = [ trace EXCEPT
                           !.exit = Exit(top, Outcome("returned", v, ""),
                                         done.outcome, done.advisories,
                                         afterGuard(top.orig, globalThis, FALSE)) ]
    /\ stack' = SubSeq(stack, 1, Len(stack) - 1)
    /\ warned' = reachableFlags(warned, stack[Len(stack)].call)
    /\ UNCHANGED roomVars
    /\ UNCHANGED loader
    /\ UNCHANGED sim
    /\ UNCHANGED rebuilder
    /\ UNCHANGED tester

\* The wrapped function of the innermost call throws.
EngineThrows ==
    /\ stack # <<>>
    /\ LET top == stack[Len(stack)]
       IN  /\ globalThis' = afterGuard(top.orig, globalThis, TRUE)
           /\ trace' = [ trace EXCEPT
                           !.exit = Exit(top, Outcome("threw", Null, "boom"),
                                         Outcome("threw", Null, "boom"), << >>,
                                         afterGuard(top.orig, globalThis, TRUE)) ]
    /\ stack' = SubSeq(stack, 1, Len(stack) - 1)
    /\ warned' = reachableFlags(warned, stack[Len(stack)].call)
    /\ UNCHANGED console
    /\ UNCHANGED roomVars
    /\ UNCHANGED loader
    /\ UNCHANGED sim
    /\ UNCHANGED rebuilder
    /\ UNCHANGED tester

NextGuard ==
    \/ \E fn \in EngineFns : GuardedCall(fn)
    \/ \E name \in { "setTimeout", "setInterval" } : InvokeTimer(name)
    \/ \E v \in ReturnedStates : EngineReturns(v)
    \/ EngineThrows

SpecGuard == InitGuard /\ [][NextGuard]_vars

\* C22: after a guarded call finishes, by return or by throw, the four
\* global timer bindings are the functions that were installed before the
\* call: the caller of a nested call finds the no-ops of the enclosing call,
\* and with no call in progress the bindings are the runtime's own.
C22_TimersRestored ==
    /\ stack = <<>> => globalThis = RealTimers
    /\ \A i \in 1..Len(stack) :
          stack[i].orig = IF i = 1 THEN RealTimers ELSE NoopTimers(stack[i - 1].call)
    /\ trace.exit # Null =>
          /\ trace.exit.after = trace.exit.installedBefore
          /\ trace.exit.call \notin { stack[i].call : i \in 1..Len(stack) }

\* A nested guarded call threw: its caller, still in progress, has the
\* no-ops of its own call back.
C22_Witness ==
    /\ trace.exit # Null
    /\ trace.exit.wrapped.kind = "threw"
    /\ Len(stack) = 1
    /\ trace.exit.call = stack[1].call + 1
    /\ trace.exit.installedBefore = NoopTimers(stack[1].call)
    /\ globalThis = NoopTimers(stack[1].call)

advisoriesOf(lines, kind, subject, call) ==
    { i \in 1..Len(lines) :
        lines[i].kind = kind /\ lines[i].subject = subject /\ lines[i].call = call }

invocationsOf(f) ==
    { i \in 1..Len(trace.invocations) : trace.invocations[i].f = f }

\* C23: during a guarded call every invocation of setTimeout or setInterval
\* returns 0 and schedules nothing, and each guarded call writes exactly one
\* advisory for a primitive if it was invoked at least once in the call and
\* none otherwise.
C23_NoopTimers ==
    /\ \A i \in 1..Len(trace.invocations) :
          trace.invocations[i].depth > 0 =>
              /\ trace.invocations[i].returned = 0
              /\ ~trace.invocations[i].scheduled
    /\ \A call \in 1..trace.entered, name \in { "setTimeout", "setInterval" } :
          Cardinality(advisoriesOf(console, "timer", name, call))
              = IF invocationsOf(createNoopTimer(name, call)) # {} THEN 1 ELSE 0

\* setTimeout was invoked twice in one guarded call and setInterval not at
\* all: one advisory for setTimeout, none for setInterval.
C23_Witness ==
    /\ Len(stack) = 1
    /\ Len(trace.invocations) = 2
    /\ trace.invocations[1].f = createNoopTimer("setTimeout", stack[1].call)
    /\ trace.invocations[2].f = createNoopTimer("setTimeout", stack[1].call)
    /\ trace.invocations[2].returned = 0
    /\ Cardinality(advisoriesOf(console, "timer", "setTimeout", stack[1].call)) = 1
    /\ advisoriesOf(console, "timer", "setInterval", stack[1].call) = {}

\* The occurrences of a function, Map, Set, Date, RegExp or undefined value
\* in a value without cycles, each with the path that leads to it through
\* object keys and array indices.
RECURSIVE occurrences(_, _, _)
occurrences(heap, v, path) ==
    IF v.t \in { "function", "Map", "Set", "Date", "RegExp", "undefined" }
    THEN { Warning(v.t, path) }
    ELSE IF v.t \notin { "object", "array" }
    THEN {}
    ELSE UNION { occurrences(heap, heap[v.at][i].val,
                             IF v.t = "array"
                             THEN path \o "[" \o ToString(i - 1) \o "]"
                             ELSE path \o "." \o heap[v.at][i].key)
                 : i \in 1..Len(heap[v.at]) }

\* C25: after a guarded init or handleAction returns, exactly one advisory
\* is written for each occurrence of a function, Map, Set, Date, RegExp or
\* undefined value reachable in the returned state, naming its path, and
\* none for a state without such values; isGameOver, getResult and
\* getPlayerView write no serialization advisory.
C25_OneAdvisoryPerOccurrence ==
    (trace.exit # Null /\ trace.exit.sandboxed.kind = "returned") =>
        LET e == trace.exit
            v == e.wrapped.value
            written == { [ what |-> e.advisories[i].subject,
                           at |-> e.advisories[i].at ] : i \in 1..Len(e.advisories) }
        IN  IF e.fn \in ScannedFns
            THEN /\ written = occurrences(v.heap, v.root, "")
                 /\ Len(e.advisories) = Cardinality(written)
            ELSE e.advisories = << >>

\* C26: whenever the wrapped function returns a value for the arguments it
\* was given, the sandboxed function passed those arguments on unchanged and
\* returns that same value, also when the value holds what JSON cannot carry.
C26_Passthrough ==
    (trace.exit # Null /\ trace.exit.wrapped.kind = "returned") =>
        /\ trace.exit.passed = trace.exit.args
        /\ trace.exit.sandboxed.kind = "returned"
        /\ trace.exit.sandboxed.value = trace.exit.wrapped.value

(***************************************************************************)
(* The server's use of the guard.                                          *)
(***************************************************************************)
\* let engine = loadEngine(projectDir): the handlers and game-room.ts call
\* the functions of the loaded module, not those of createSandboxedEngine.
engineIsSandboxed == FALSE

\* The timer bindings in place while a function of the server's engine runs.
timersDuring(current) == IF engineIsSandboxed THEN NoopTimers(1) ELSE current

\* C24: every engine call made while a room event is processed goes through
\* the sandbox guard: the global timers are no-ops during the call and the
\* states init and handleAction return are scanned.
C24_EngineCallsGuarded ==
    \A i \in 1..Len(calls) :
        /\ timersDuring(globalThis).setTimeout.kind = "noop"
        /\ timersDuring(globalThis).setInterval.kind = "noop"
        /\ calls[i].fn \in ScannedFns => engineIsSandboxed

(***************************************************************************)
(* Loading the engine: engine-loader.ts and the start of socket-server.ts. *)
(***************************************************************************)
\* The position in `required` of the first function the module lacks, 0 for
\* none.
firstMissing(impl) ==
    LET missing == { i \in 1..Len(required) : required[i] \notin impl }
    IN  IF missing = {} THEN 0
        ELSE CHOOSE i \in missing : \A j \in missing : i <= j

\* A load that validates nothing.
loadEngine_unchecked(impl) == [ ok |-> TRUE, error |-> "" ]

\* loadEngine(projectDir) for a built module exporting the functions impl.
loadEngine(impl) ==
    IF firstMissing(impl) # 0
    THEN [ ok |-> FALSE,
           error |-> "Engine missing required method: " \o required[firstMissing(impl)] ]
    ELSE [ ok |-> TRUE, error |-> "" ]

\* The process has started; createSocketServer has not run.
InitLoad ==
    /\ room = Null
    /\ bound = [ s \in {} |-> Null ]
    /\ joined = 0
    /\ lastEvent = Event("boot", Null, Null)
    /\ outbox = <<>>
    /\ calls = <<>>
    /\ GuardIdle
    /\ sim = Null
    /\ rebuilder = Null
    /\ tester = Null
    /\ loader = Loader({}, {}, "")

\* createSocketServer(options): the error of loadEngine leaves it before the
\* room is created and before any handler is registered.
CreateSocketServer(impl) ==
    /\ room = Null
    /\ LET l == loadEngine(impl)
       IN  IF l.ok
           THEN /\ loader' = Loader({impl}, {impl}, "")
                /\ room' = createRoom("dev-game")
           ELSE /\ loader' = Loader({}, {impl}, l.error)
                /\ UNCHANGED room
    /\ lastEvent' = Event("createSocketServer", Null, Null)
    /\ outbox' = <<>>
    /\ calls' = <<>>
    /\ UNCHANGED <<bound, joined>>
    /\ UNCHANGED guardVars
    /\ UNCHANGED tester
    /\ UNCHANGED sim
    /\ UNCHANGED rebuilder

\* A reload whose failure leaves the server without an engine.
ReloadEngine_dropsEngine(impl) ==
    /\ room # Null
    /\ LET l == loadEngine(impl)
       IN  loader' = IF l.ok
                     THEN Loader({impl}, {impl}, "")
                     ELSE Loader({}, {impl}, l.error)
    /\ lastEvent' = Event("reloadEngine", Null, Null)
    /\ outbox' = <<>>
    /\ calls' = <<>>
    /\ UNCHANGED <<room, bound, joined>>
    /\ UNCHANGED guardVars
    /\ UNCHANGED tester
    /\ UNCHANGED sim
    /\ UNCHANGED rebuilder

\* reloadEngine(): engine = loadEngine(projectDir) assigns only if the load
\* returns.
ReloadEngine(impl) ==
    /\ room # Null
    /\ LET l == loadEngine(impl)
       IN  loader' = IF l.ok
                     THEN Loader({impl}, {impl}, "")
                     ELSE Loader(loader.engine, {impl}, l.error)
    /\ lastEvent' = Event("reloadEngine", Null, Null)
    /\ outbox' = <<>>
    /\ calls' = <<>>
    /\ UNCHANGED <<room, bound, joined>>
    /\ UNCHANGED guardVars
    /\ UNCHANGED tester
    /\ UNCHANGED sim
    /\ UNCHANGED rebuilder

NextLoad ==
    \/ \E impl \in Implementations : CreateSocketServer(impl)
    \/ \E impl \in Implementations : ReloadEngine(impl)
    \/ room # Null /\ \E nick \in Nicknames : Connection(nick)
    \/ room # Null /\ \E s \in DOMAIN bound : Disconnect(s)

SpecLoad == InitLoad /\ [][NextLoad]_vars

\* C27: loading a module that lacks one of the five functions fails with an
\* error naming a function it lacks; the server then holds no such engine:
\* when the first load fails there is no room and no connection, and the
\* engine the handlers call always has all five functions.
C27_IncompleteEngineRefused ==
    /\ \A impl \in loader.loaded :
          firstMissing(impl) # 0 =>
              /\ \E i \in 1..Len(required) :
                    /\ required[i] \notin impl
                    /\ loader.error = "Engine missing required method: " \o required[i]
              /\ impl \notin loader.engine
    /\ loader.engine = {} => (room = Null /\ DOMAIN bound = {})
    /\ \A impl \in loader.engine : \A i \in 1..Len(required) : required[i] \in impl

\* createSocketServer was given a module without getResult and
\* getPlayerView: the error names getResult and no room exists.
C27_Witness ==
    /\ lastEvent.type = "createSocketServer"
    /\ loader.loaded = { { "init", "handleAction", "isGameOver" } }
    /\ loader.error = "Engine missing required method: getResult"
    /\ loader.engine = {}
    /\ room = Null

\* The positions in the outbox of the messages of an event.
positionsOf(ms, event) == { i \in 1..Len(ms) : ms[i].event = event }

\* C28: in the action event that ends the game every seat's connection is
\* sent its view of the final state before the result is broadcast, and the
\* roster update with phase ended is broadcast after both.
C28_SettlementOrder ==
    (lastEvent.type = "game:action" /\ room.phase = "ended"
        /\ \E i \in 1..Len(calls) : calls[i].fn = "handleAction") =>
        LET states == positionsOf(outbox, "game:state")
            results == positionsOf(outbox, "game:result")
            updates == positionsOf(outbox, "room:update")
        IN  /\ Cardinality(results) = 1
            /\ Cardinality(updates) = 1
            /\ \A i \in 1..Len(room.players) :
                  \E k \in states :
                      /\ outbox[k].to = { room.players[i].socketId }
                      /\ outbox[k].payload
                            = engine_getPlayerView(room.state, room.players[i].id)
            /\ \A k \in states, r \in results : k < r
            /\ \A r \in results, u \in updates : r < u
            /\ \A u \in updates : outbox[u].payload.phase = "ended"

\* A guess ended the game in a room of two seats: two views, the result and
\* the roster update were sent, in that order.
C28_Witness ==
    /\ lastEvent.type = "game:action"
    /\ room.phase = "ended"
    /\ \E i \in 1..Len(calls) : calls[i].fn = "handleAction"
    /\ Len(room.players) = 2
    /\ Len(outbox) = 4
    /\ outbox[1].event = "game:state"
    /\ outbox[2].event = "game:state"
    /\ outbox[3].event = "game:result"
    /\ outbox[4].event = "room:update"

(***************************************************************************)
(* GameTester (sdk/src/testing/game-tester.ts) driving the reference       *)
(* engines: number-guess and the counter engine of the sdk's tests.        *)
(* A state object is the pair of its identity `ref` and its value.         *)
(***************************************************************************)
\* The count that ends the counter game.
CounterTarget == 3

\* State objects one tester run builds.
MaxObjects == 4

counter_init(players) ==
    [ phase |-> "playing",
      players |-> [ i \in 1..Len(players) |-> [ id |-> players[i].id ] ],
      data |-> [ count |-> 0, currentPlayerIndex |-> 0 ] ]

\* Whether the counter engine's handleAction returns a new object
\* ({ ...state, ... }) rather than the state it was given.
counter_handleAction_allocates(state, playerId, action) ==
    /\ action.type = "INCREMENT"
    /\ state.players[state.data.currentPlayerIndex + 1].id = playerId

counter_handleAction(state, playerId, action) ==
    IF action.type # "INCREMENT" THEN state
    ELSE IF state.players[state.data.currentPlayerIndex + 1].id # playerId THEN state
    ELSE LET newCount == state.data.count + 1
         IN  IF newCount >= CounterTarget
             THEN [ phase |-> "ended",
                    players |-> state.players,
                    data |-> [ count |-> newCount,
                               currentPlayerIndex |-> state.data.currentPlayerIndex,
                               winnerId |-> playerId ] ]
             ELSE [ phase |-> state.phase,
                    players |-> state.players,
                    data |-> [ count |-> newCount,
                               currentPlayerIndex |->
                                   (state.data.currentPlayerIndex + 1) % Len(state.players) ] ]

\* createMockPlayers(count)
createMockPlayers(count) ==
    [ i \in 1..count |->
        [ id |-> PlayerId(i), nickname |-> "Player " \o ToString(i),
          avatarUrl |-> Null, isHost |-> (i = 1) ] ]

\* Seat ids the tests act under.
TesterIds == { PlayerId(1), PlayerId(2) }

\* Actions the tests send: guesses in and out of the range, a guess that is
\* not whole, a guess without payload, and other types.
TesterActions ==
    { [ type |-> "GUESS", payload |-> [ number |-> n ] ] : n \in { 0, 50, 75, 100, 101 } }
    \cup { [ type |-> "GUESS", payload |-> [ number |-> 50, frac |-> 5 ] ],
           [ type |-> "GUESS", payload |-> Null ],
           [ type |-> "INCREMENT", payload |-> Null ],
           [ type |-> "PING", payload |-> Null ] }

StateObject(ref, value) == [ ref |-> ref, value |-> value ]

Tester(engine, state, before, last, view) ==
    [ engine |-> engine, state |-> state, before |-> before, last |-> last, view |-> view ]

\* engine.handleAction(state, playerId, action) of the tester's engine: the
\* object it returns.
testerHandleAction(engine, state, playerId, action) ==
    IF engine = "number-guess"
    THEN IF engine_handleAction_allocates(state.value, playerId, action)
         THEN StateObject(state.ref + 1, engine_handleAction(state.value, playerId, action))
         ELSE state
    ELSE IF counter_handleAction_allocates(state.value, playerId, action)
         THEN StateObject(state.ref + 1, counter_handleAction(state.value, playerId, action))
         ELSE state

\* new GameTester(engine); tester.init(createMockPlayers(2))
InitTester ==
    /\ room = createRoom("dev-game")
    /\ bound = [ s \in {} |-> Null ]
    /\ joined = 0
    /\ lastEvent = Event("listen", Null, Null)
    /\ outbox = <<>>
    /\ calls = <<>>
    /\ GuardIdle
    /\ sim = Null
    /\ rebuilder = Null
    /\ EngineLoaded
    /\ \/ \E secretNumber \in Secrets :
             tester = Tester("number-guess",
                             StateObject(1, engine_init(createMockPlayers(2), secretNumber)),
                             Null, Null, Null)
       \/ tester = Tester("counter",
                          StateObject(1, counter_init(createMockPlayers(2))),
                          Null, Null, Null)

\* tester.act(playerId, action)
TesterAct(playerId, action) ==
    /\ tester.state.ref < MaxObjects
    /\ tester' = Tester(tester.engine,
                        testerHandleAction(tester.engine, tester.state, playerId, action),
                        tester.state,
                        [ playerId |-> playerId, action |-> action ],
                        Null)
    /\ UNCHANGED roomVars
    /\ UNCHANGED guardVars
    /\ UNCHANGED loader
    /\ UNCHANGED sim
    /\ UNCHANGED rebuilder

\* tester.getPlayerView(playerId), for the number-guess engine.
TesterGetPlayerView(playerId) ==
    /\ tester.engine = "number-guess"
    /\ tester' = [ tester EXCEPT
                     !.view = [ playerId |-> playerId,
                                value |-> engine_getPlayerView(tester.state.value, playerId) ] ]
    /\ UNCHANGED roomVars
    /\ UNCHANGED guardVars
    /\ UNCHANGED loader
    /\ UNCHANGED sim
    /\ UNCHANGED rebuilder

NextTester ==
    \/ \E id \in TesterIds, action \in TesterActions : TesterAct(id, action)
    \/ \E id \in TesterIds : TesterGetPlayerView(id)

SpecTester == InitTester /\ [][NextTester]_vars

\* The id of the seat whose turn it is in a state of either engine.
currentTurnId(state) == state.players[state.data.currentPlayerIndex + 1].id

\* C29: in number-guess and in the counter engine, handleAction called with
\* the id of a seat whose turn it is not returns the state object it was
\* given, so GameTester.act leaves tester.state the same object; in
\* number-guess the same holds for an action in the wrong phase, of the
\* wrong type, or with a guess that is not a whole number or out of range.
C29_RejectionReturnsInput ==
    tester.last # Null =>
        LET before == tester.before.value
            action == tester.last.action
        IN  /\ tester.last.playerId # currentTurnId(before) =>
                  tester.state = tester.before
            /\ (tester.engine = "number-guess"
                  /\ \/ before.phase # "playing"
                     \/ action.type # "GUESS"
                     \/ ~isInteger(action.payload)
                     \/ action.payload.number < before.data.low
                     \/ action.payload.number > before.data.high) =>
                  tester.state = tester.before

\* After one accepted guess the turn is seat 2's; seat 1 sent a guess that
\* is in range, and the tester holds the same state object as before.
C29_Witness ==
    /\ tester.last # Null
    /\ tester.engine = "number-guess"
    /\ tester.before.ref = 2
    /\ tester.before.value.phase = "playing"
    /\ currentTurnId(tester.before.value) = PlayerId(2)
    /\ tester.last.playerId = PlayerId(1)
    /\ tester.last.action = [ type |-> "GUESS", payload |-> [ number |-> 75 ] ]
    /\ tester.before.value.data.low <= 75
    /\ tester.before.value.data.high >= 75
    /\ tester.state = tester.before

\* C30: in every number-guess state reached from init whose phase is not
\* ended, the data of every seat's view has no secretNumber field; once the
\* phase is ended every seat's view holds the secret number.
C30_SecretHiddenUntilEnd ==
    tester.engine = "number-guess" =>
        \A id \in TesterIds :
            LET state == tester.state.value
                view == engine_getPlayerView(state, id)
            IN  IF state.phase # "ended"
                THEN "secretNumber" \notin DOMAIN view.data
                ELSE /\ "secretNumber" \in DOMAIN view.data
                     /\ view.data.secretNumber = state.data.secretNumber

\* After a wrong guess, in phase playing, seat 2 asked for its view: it has
\* the narrowed range and no secretNumber.
C30_Witness ==
    /\ tester.engine = "number-guess"
    /\ tester.view # Null
    /\ tester.view.playerId = PlayerId(2)
    /\ tester.state.ref = 2
    /\ tester.state.value.phase = "playing"
    /\ tester.state.value.data.lastGuess # Null
    /\ "secretNumber" \notin DOMAIN tester.view.value.data
    /\ tester.view.value.data.low = tester.state.value.data.low

(***************************************************************************)
(* GameSimulator (sdk/src/testing/game-simulator.ts) over number-guess.    *)
(***************************************************************************)
\* act calls logged after one start().
MaxActs == 3

\* start() calls in one run.
MaxStarts == 2

\* Outcomes of Math.random() in init explored with the simulator.
SimSecrets == { 1, 50, 100 }

\* Actions the simulator is driven with.
SimActions ==
    { [ type |-> "GUESS", payload |-> [ number |-> n ] ] : n \in { 1, 25, 75, 101 } }
    \cup { [ type |-> "PING", payload |-> Null ] }

Simulator(players, state, actionLog, starts, acted) ==
    [ players |-> players, state |-> state, actionLog |-> actionLog,
      starts |-> starts, acted |-> acted ]

\* new GameSimulator(engine, { playerCount })
newSimulator == Simulator(<<>>, Null, <<>>, 0, <<>>)

\* start(): `ref` is the identity of the state object init returns.
start(g, playerCount, secretNumber, ref) ==
    Simulator(createMockPlayers(playerCount),
              StateObject(ref, engine_init(createMockPlayers(playerCount), secretNumber)),
              <<>>, g.starts + 1, <<>>)

\* get currentTurn()
currentTurn(g) == g.state.value.data.currentPlayerIndex

ActionLogEntry(playerIndex, playerId, action, stateBefore, stateAfter) ==
    [ playerIndex |-> playerIndex, playerId |-> playerId, action |-> action,
      stateBefore |-> stateBefore, stateAfter |-> stateAfter ]

\* A log that keeps only the actions that changed the state.
logged_changesOnly(log, entry) ==
    IF entry.stateAfter = entry.stateBefore THEN log ELSE Append(log, entry)

\* this._actionLog.push(...)
logged(log, entry) == Append(log, entry)

\* act(playerIndex, action) with a valid index.  `acted` is the history of
\* the calls themselves.
act(g, playerIndex, action) ==
    LET playerId == g.players[playerIndex + 1].id
        stateBefore == g.state
        stateAfter == testerHandleAction("number-guess", stateBefore, playerId, action)
    IN  Simulator(g.players, stateAfter,
                  logged(g.actionLog,
                         ActionLogEntry(playerIndex, playerId, action, stateBefore, stateAfter)),
                  g.starts,
                  Append(g.acted, [ playerIndex |-> playerIndex, action |-> action ]))

InitSim ==
    /\ room = createRoom("dev-game")
    /\ bound = [ s \in {} |-> Null ]
    /\ joined = 0
    /\ lastEvent = Event("listen", Null, Null)
    /\ outbox = <<>>
    /\ calls = <<>>
    /\ GuardIdle
    /\ EngineLoaded
    /\ tester = Null
    /\ rebuilder = Null
    /\ sim = newSimulator

simFrame ==
    /\ UNCHANGED rebuilder
    /\ UNCHANGED roomVars
    /\ UNCHANGED guardVars
    /\ UNCHANGED loader
    /\ UNCHANGED tester

\* sim.start() of a simulator of three seats.
SimStart(secretNumber) ==
    /\ sim.starts < MaxStarts
    /\ sim' = start(sim, 3, secretNumber,
                    IF sim.state = Null THEN 1 ELSE sim.state.ref + 1)
    /\ simFrame

\* sim.act(playerIndex, action)
SimAct(playerIndex, action) ==
    /\ sim.state # Null
    /\ playerIndex >= 0
    /\ playerIndex < Len(sim.players)
    /\ Len(sim.acted) < MaxActs
    /\ sim' = act(sim, playerIndex, action)
    /\ simFrame

NextSim ==
    \/ \E secretNumber \in SimSecrets : SimStart(secretNumber)
    \/ \E i \in 0..2, action \in SimActions : SimAct(i, action)

SpecSim == InitSim /\ [][NextSim]_vars

\* A search that tries the lowest number of the range.
midpoint_lowest(lo, hi) == lo

\* Math.floor((lo + hi) / 2)
midpoint(lo, hi) == (lo + hi) \div 2

\* The simulator of the complete-game test, started with any secret.
InitSearch ==
    /\ room = createRoom("dev-game")
    /\ bound = [ s \in {} |-> Null ]
    /\ joined = 0
    /\ lastEvent = Event("listen", Null, Null)
    /\ outbox = <<>>
    /\ calls = <<>>
    /\ GuardIdle
    /\ EngineLoaded
    /\ tester = Null
    /\ rebuilder = Null
    /\ \E secretNumber \in RangeLow..RangeHigh :
          sim = start(newSimulator, 3, secretNumber, 1)

\* One turn of the loop of the test: the seat whose turn it is guesses the
\* middle of the range the state shows.
SearchStep ==
    /\ ~engine_isGameOver(sim.state.value)
    /\ sim' = act(sim, currentTurn(sim),
                  [ type |-> "GUESS",
                    payload |-> [ number |-> midpoint(sim.state.value.data.low,
                                                      sim.state.value.data.high) ] ])
    /\ simFrame

NextSearch == SearchStep

\* The loop runs until the game is over.
SpecSearch == InitSearch /\ [][NextSearch]_vars /\ WF_vars(NextSearch)

\* C31: for every secret number in 1..100 and 3 seats, the run in which the
\* seat whose turn it is always guesses the middle of the current range
\* reaches a state where the game is over after at most 8 act calls.
C31_SearchEndsWithinEight ==
    <>(engine_isGameOver(sim.state.value) /\ Len(sim.acted) <= 8)

\* A run that needed seven guesses.
C31_Witness ==
    /\ engine_isGameOver(sim.state.value)
    /\ Len(sim.acted) = 7
    /\ Len(sim.actionLog) = 7
    /\ sim.actionLog[7].action.payload.number = sim.state.value.data.secretNumber

winners(result) == { i \in 1..Len(result.rankings) : result.rankings[i].isWinner }

C33_RangeNarrows ==
    sim.state # Null =>
        /\ LET data == sim.state.value.data
           IN  /\ RangeLow <= data.low
               /\ data.low <= data.secretNumber
               /\ data.secretNumber <= data.high
               /\ data.high <= RangeHigh
        /\ \A k \in 1..Len(sim.actionLog) :
              LET e == sim.actionLog[k]
                  before == e.stateBefore.value
                  after == e.stateAfter.value
              IN  engine_handleAction_allocates(before, e.playerId, e.action) =>
                      LET guess == e.action.payload.number
                      IN  IF guess = before.data.secretNumber
                          THEN after.phase = "ended"
                          ELSE /\ after.phase = "playing"
                               /\ IF guess < before.data.secretNumber
                                  THEN /\ after.data.low = guess + 1
                                       /\ after.data.low > before.data.low
                                       /\ after.data.high = before.data.high
                                  ELSE /\ after.data.high = guess - 1
                                       /\ after.data.high < before.data.high
                                       /\ after.data.low = before.data.low
                               /\ after.data.currentPlayerIndex
                                     = (before.data.currentPlayerIndex + 1) % Len(before.players)

\* Three accepted guesses, none the secret: the third was made by the last
\* seat and the turn is the first seat's again.
C33_Witness ==
    /\ sim.state # Null
    /\ Len(sim.actionLog) = 3
    /\ sim.state.ref = sim.actionLog[1].stateBefore.ref + 3
    /\ sim.state.value.phase = "playing"
    /\ sim.actionLog[3].playerIndex = 2
    /\ currentTurn(sim) = 0
    /\ sim.state.value.data.low > RangeLow
    /\ sim.state.value.data.high < RangeHigh

\* C35: after start() and n act calls with valid seat indices the action
\* log has n entries in call order, rejected actions included; entry i holds
\* the index and id of the acting seat and the action; the stateAfter of
\* entry i is the stateBefore of entry i + 1 and that of the last entry is
\* the simulator's state; start() empties the log.
C35_ActionLog ==
    /\ sim.state = Null => sim.actionLog = <<>>
    /\ sim.state # Null =>
          /\ Len(sim.actionLog) = Len(sim.acted)
          /\ \A k \in 1..Len(sim.actionLog) :
                /\ sim.actionLog[k].playerIndex = sim.acted[k].playerIndex
                /\ sim.actionLog[k].action = sim.acted[k].action
                /\ sim.actionLog[k].playerId
                      = sim.players[sim.acted[k].playerIndex + 1].id
          /\ \A k \in 1..(Len(sim.actionLog) - 1) :
                sim.actionLog[k].stateAfter = sim.actionLog[k + 1].stateBefore
          /\ sim.actionLog # <<>> =>
                sim.actionLog[Len(sim.actionLog)].stateAfter = sim.state
          /\ sim.acted = <<>> => sim.actionLog = <<>>

\* In the second game of the simulator an accepted guess was followed by a
\* rejected one: both are in the log, which holds nothing of the first game.
C35_Witness ==
    /\ sim.starts = 2
    /\ Len(sim.actionLog) = 2
    /\ sim.actionLog[1].stateBefore.ref > 1
    /\ sim.actionLog[1].stateAfter # sim.actionLog[1].stateBefore
    /\ sim.actionLog[2].stateAfter = sim.actionLog[2].stateBefore
    /\ sim.actionLog[2].stateBefore = sim.actionLog[1].stateAfter
    /\ sim.state = sim.actionLog[2].stateAfter

(***************************************************************************)
(* GameTester before and after init (sdk/src/testing/game-tester.ts).      *)
(***************************************************************************)
Thrown(message) == [ threw |-> TRUE, message |-> message, value |-> Null ]
Returned(value) == [ threw |-> FALSE, message |-> Null, value |-> value ]

\* A tester with the record of its last call: the operation, its outcome and
\* the engine functions it invoked.
CalledTester(state, op, outcome, invoked) ==
    [ engine |-> "number-guess", state |-> state, op |-> op, outcome |-> outcome,
      invoked |-> invoked ]

\* new GameTester(engine)
newTester == CalledTester(Null, "new", Null, <<>>)

\* A getter that hands out _state as it is.
getState_unchecked(t) == Returned(t.state)

\* get state()
getState(t) ==
    IF t.state = Null
    THEN Thrown("GameTester: call init() before accessing state")
    ELSE Returned(t.state)

\* What an accessor or engine query has done once it has read this.state:
\* `fns` is the engine function it passes the state to (none for phase and
\* playerStates).  Reading a field of, or calling the engine on, a state
\* that is null is a TypeError.
readState(t, op, fns) ==
    LET s == getState(t)
    IN  IF s.threw
        THEN CalledTester(t.state, op, s, <<>>)
        ELSE IF s.value = Null
        THEN CalledTester(t.state, op, Thrown("TypeError"), fns)
        ELSE CalledTester(t.state, op, s, fns)

\* The call returns `value` unless reading the state threw.
returning(read, value) ==
    IF read.outcome.threw THEN read ELSE [ read EXCEPT !.outcome = Returned(value) ]

tester_phase(t) ==
    LET read == readState(t, "phase", <<>>)
    IN  IF read.outcome.threw THEN read ELSE returning(read, t.state.value.phase)

tester_playerStates(t) ==
    LET read == readState(t, "playerStates", <<>>)
    IN  IF read.outcome.threw THEN read ELSE returning(read, t.state.value.players)

tester_isGameOver(t) ==
    LET read == readState(t, "isGameOver", << "isGameOver" >>)
    IN  IF read.outcome.threw THEN read
        ELSE returning(read, engine_isGameOver(t.state.value))

tester_getResult(t) ==
    LET read == readState(t, "getResult", << "getResult" >>)
    IN  IF read.outcome.threw THEN read
        ELSE returning(read, engine_getResult(t.state.value))

tester_getPlayerView(t, playerId) ==
    LET read == readState(t, "getPlayerView", << "getPlayerView" >>)
    IN  IF read.outcome.threw THEN read
        ELSE returning(read, engine_getPlayerView(t.state.value, playerId))

tester_state(t) == CalledTester(t.state, "state", getState(t), <<>>)

\* act(playerId, action)
tester_act(t, playerId, action) ==
    IF t.state = Null
    THEN CalledTester(t.state, "act", Thrown("GameTester: call init() before act()"), <<>>)
    ELSE LET next == testerHandleAction(t.engine, t.state, playerId, action)
         IN  CalledTester(next, "act", Returned(next), <<"handleAction">>)

\* init(players): `ref` is the identity of the state object init returns.
tester_init(t, players, secretNumber, ref) ==
    LET state == StateObject(ref, engine_init(players, secretNumber))
    IN  CalledTester(state, "init", Returned(state), <<"init">>)

InitFresh ==
    /\ room = createRoom("dev-game")
    /\ bound = [ s \in {} |-> Null ]
    /\ joined = 0
    /\ lastEvent = Event("listen", Null, Null)
    /\ outbox = <<>>
    /\ calls = <<>>
    /\ GuardIdle
    /\ EngineLoaded
    /\ sim = Null
    /\ rebuilder = Null
    /\ tester = newTester

testerFrame ==
    /\ UNCHANGED roomVars
    /\ UNCHANGED guardVars
    /\ UNCHANGED loader
    /\ UNCHANGED sim
    /\ UNCHANGED rebuilder

FreshInit(secretNumber) ==
    /\ tester.state = Null
    /\ tester' = tester_init(tester, createMockPlayers(2), secretNumber, 1)
    /\ testerFrame

FreshAct(playerId, action) ==
    /\ tester.state # Null => tester.state.ref < MaxObjects
    /\ tester' = tester_act(tester, playerId, action)
    /\ testerFrame

FreshIsGameOver ==
    /\ tester' = tester_isGameOver(tester)
    /\ testerFrame

FreshGetResult ==
    /\ tester' = tester_getResult(tester)
    /\ testerFrame

FreshGetPlayerView(playerId) ==
    /\ tester' = tester_getPlayerView(tester, playerId)
    /\ testerFrame

FreshState ==
    /\ tester' = tester_state(tester)
    /\ testerFrame

FreshPhase ==
    /\ tester' = tester_phase(tester)
    /\ testerFrame

FreshPlayerStates ==
    /\ tester' = tester_playerStates(tester)
    /\ testerFrame

NextFresh ==
    \/ \E secretNumber \in Secrets : FreshInit(secretNumber)
    \/ \E id \in TesterIds, action \in TesterActions : FreshAct(id, action)
    \/ FreshIsGameOver
    \/ FreshGetResult
    \/ \E id \in TesterIds : FreshGetPlayerView(id)
    \/ FreshState
    \/ FreshPhase
    \/ FreshPlayerStates

SpecFresh == InitFresh /\ [][NextFresh]_vars

\* C34: on a GameTester on which init has not been called, each of act,
\* isGameOver, getResult, getPlayerView and the accessors state, phase and
\* playerStates throws, invokes no engine function and leaves the tester
\* uninitialised.
C34_ThrowsBeforeInit ==
    [][ (tester.state = Null /\ tester'.op # "init") =>
            /\ tester'.op \in { "act", "isGameOver", "getResult", "getPlayerView",
                                "state", "phase", "playerStates" }
            /\ tester'.outcome.threw
            /\ tester'.outcome.message
                  \in { "GameTester: call init() before act()",
                        "GameTester: call init() before accessing state" }
            /\ tester'.invoked = <<>>
            /\ tester'.state = Null ]_vars

\* isGameOver was called on a tester that was never initialised.
C34_Witness ==
    /\ tester.state = Null
    /\ tester.op = "isGameOver"
    /\ tester.outcome.threw
    /\ tester.invoked = <<>>

(***************************************************************************)
(* The view each connected seat holds.                                     *)
(***************************************************************************)
\* Positions of the game:state messages an event delivered to a socket.
statePushes(box, socketId) ==
    { k \in 1..Len(box) : box[k].event = "game:state" /\ socketId \in box[k].to }

latest(positions) == CHOOSE k \in positions : \A j \in positions : j <= k

\* C36: while the phase is playing or ended (the engine not reloaded), after
\* every processed event the last game:state message delivered to each
\* connected seat is getPlayerView(current engine state, the seat's id).
\* Stated for every event: either the event delivers that view to the seat
\* as its last game:state message, or the event delivers the seat no
\* game:state message and the seat was connected before the event, in a
\* phase that was playing or ended already, and the engine state is the one
\* it was.
C36_ViewsCurrent ==
    [][ room'.phase \in { "playing", "ended" } =>
            \A i \in 1..Len(room'.players) :
                LET p == room'.players[i]
                    pushes == statePushes(outbox', p.socketId)
                IN  IF pushes # {}
                    THEN outbox'[latest(pushes)].payload
                            = engine_getPlayerView(room'.state, p.id)
                    ELSE /\ room.phase \in { "playing", "ended" }
                         /\ room'.state = room.state
                         /\ p.socketId \in DOMAIN bound
                         /\ getPlayerBySocketId(room, p.socketId).id = p.id ]_vars

\* A third seat connected while the game of the other two was being played
\* and was handed the view of the state the game is in.
C36_Witness ==
    /\ lastEvent.type = "connection"
    /\ room.phase = "playing"
    /\ Len(room.players) = 3
    /\ room.state.data.low > RangeLow
    /\ statePushes(outbox, lastEvent.socketId) # {}
    /\ \A s \in DOMAIN bound \ { lastEvent.socketId } : statePushes(outbox, s) = {}
    /\ outbox[latest(statePushes(outbox, lastEvent.socketId))].payload
          = engine_getPlayerView(room.state, bound[lastEvent.socketId])

(***************************************************************************)
(* game:start and game:action with an engine whose functions may throw.    *)
(***************************************************************************)
\* The engine function that throws while an event is processed, on its
\* first call in that event; "none" when every call returns.
StartThrowers == { "none", "init", "getPlayerView" }
ActionThrowers == { "none", "handleAction", "isGameOver", "getPlayerView", "getResult" }

\* Actions sent to the room whose engine may throw.
FaultyActions ==
    { [type |-> "GUESS", payload |-> [number |-> 50]],
      [type |-> "GUESS", payload |-> [number |-> 25]] }

\* An event with the engine function that threw out of its handler.
ThrowingEvent(type, socketId, arg, threw) ==
    [ type |-> type, socketId |-> socketId, arg |-> arg, threw |-> threw ]

Handled(r, box, engineCalls, threw) ==
    [ room |-> r, outbox |-> box, calls |-> engineCalls, threw |-> threw ]

\* The game:start handler past its guards: GameRoom.startGame, the views,
\* the roster update.  An exception leaves the handler at the call that
\* threw, with the assignments and the emits made so far.
startHandler(r, sockets, secretNumber, thrower) ==
    LET initCall == engineCall("init", startPlayers(r), Null, Null, Null)
        started == startGame(r, secretNumber)
        views == stateMessages(started, sockets)
    IN  IF thrower = "init"
        THEN Handled(r, <<>>, << initCall >>, "init")
        ELSE IF thrower = "getPlayerView" /\ views # <<>>
        THEN Handled(started, <<>>, << initCall, views[1].via >>, "getPlayerView")
        ELSE Handled(started, views \o << roomUpdate(started, sockets) >>,
                     << initCall >> \o viaOf(views), "none")

\* The game:action handler past its guard: GameRoom.handleAction, the views,
\* the result when the phase is ended, the roster update.
actionHandler(r, sockets, playerId, action, thrower) ==
    LET runs == handleActionRuns(r)
        handleCall == engineCall("handleAction", Null, r.state, playerId, action)
        newState == engine_handleAction(r.state, playerId, action)
        overCall == engineCall("isGameOver", Null, newState, Null, Null)
        assigned == [ r EXCEPT !.state = newState ]
        after == handleAction(r, playerId, action)
        roomCalls == IF runs THEN << handleCall, overCall >> ELSE <<>>
        views == stateMessages(after, sockets)
        result == IF sendsResult(r, after)
                  THEN << resultMessage(after, sockets) >> ELSE <<>>
    IN  IF runs /\ thrower = "handleAction"
        THEN Handled(r, <<>>, << handleCall >>, "handleAction")
        ELSE IF runs /\ thrower = "isGameOver"
        THEN Handled(assigned, <<>>, << handleCall, overCall >>, "isGameOver")
        ELSE IF thrower = "getPlayerView" /\ views # <<>>
        THEN Handled(after, <<>>, roomCalls \o << views[1].via >>, "getPlayerView")
        ELSE IF thrower = "getResult" /\ result # <<>>
        THEN Handled(after, views, roomCalls \o viaOf(views) \o viaOf(result), "getResult")
        ELSE Handled(after, actionOutbox(views, result, roomUpdate(after, sockets)),
                     roomCalls \o viaOf(views) \o viaOf(result), "none")

roomFrame ==
    /\ UNCHANGED guardVars
    /\ UNCHANGED loader
    /\ UNCHANGED sim
    /\ UNCHANGED rebuilder
    /\ UNCHANGED tester
    /\ UNCHANGED <<bound, joined>>

\* socket.on('game:start', ...) with an engine that may throw.
FaultyGameStart(socketId, thrower) ==
    /\ socketId \in DOMAIN bound
    /\ roomFrame
    /\ IF ~mayStart(room, socketId)
       THEN /\ UNCHANGED room
            /\ outbox' = <<>>
            /\ calls' = <<>>
            /\ lastEvent' = ThrowingEvent("game:start", socketId, Null, "none")
       ELSE \E secretNumber \in { 50 } :
            LET h == startHandler(room, DOMAIN bound, secretNumber, thrower)
            IN  /\ room' = h.room
                /\ outbox' = h.outbox
                /\ calls' = h.calls
                /\ lastEvent' = ThrowingEvent("game:start", socketId, Null, h.threw)

\* socket.on('game:action', ...) with an engine that may throw.
FaultyGameAction(socketId, action, thrower) ==
    /\ socketId \in DOMAIN bound
    /\ roomFrame
    /\ IF ~actionAccepted(room)
       THEN /\ UNCHANGED room
            /\ outbox' = <<>>
            /\ calls' = <<>>
            /\ lastEvent' = ThrowingEvent("game:action", socketId, action, "none")
       ELSE LET h == actionHandler(room, DOMAIN bound, actionPlayerId(bound, socketId),
                                   action, thrower)
            IN  /\ room' = h.room
                /\ outbox' = h.outbox
                /\ calls' = h.calls
                /\ lastEvent' = ThrowingEvent("game:action", socketId, action, h.threw)

NextFaulty ==
    \/ \E nick \in Nicknames : Connection(nick)
    \/ \E s \in DOMAIN bound : PlayerReady(s, TRUE)
    \/ \E s \in DOMAIN bound, thrower \in StartThrowers : FaultyGameStart(s, thrower)
    \/ \E s \in DOMAIN bound, action \in FaultyActions, thrower \in ActionThrowers :
          FaultyGameAction(s, action, thrower)
    \/ \E s \in DOMAIN bound : GamePlayAgain(s)

SpecFaulty == Init /\ [][NextFaulty]_vars

threwIn(event) == IF "threw" \in DOMAIN event THEN event.threw ELSE "none"

\* C37: if an engine function (init, handleAction, isGameOver, getPlayerView
\* or getResult) throws while a start or action event is processed, the
\* room's engine state and phase are what they were before the event.
C37_NoPartialUpdate ==
    [][ (lastEvent'.type \in { "game:start", "game:action" } /\ threwIn(lastEvent') # "none")
            => (room'.state = room.state /\ room'.phase = room.phase) ]_vars

(***************************************************************************)
(* reloadEngine() between the events of a room that is in use.             *)
(***************************************************************************)
\* Modules a rebuild may leave in dist/engine.cjs.
RebuiltImplementations ==
    { { required[i] : i \in 1..Len(required) },
      { "init", "handleAction", "isGameOver" },
      {} }

\* reloadEngine() when dist/engine.cjs does not exist: clearEngineCache()
\* has emptied the loader's cache and loadEngine throws before it requires
\* anything, so the assignment to `engine` is not reached.
ReloadEngineNotBuilt ==
    /\ room # Null
    /\ loader' = Loader(loader.engine, {}, "Engine not found")
    /\ lastEvent' = Event("reloadEngine", Null, Null)
    /\ outbox' = <<>>
    /\ calls' = <<>>
    /\ UNCHANGED <<room, bound, joined>>
    /\ UNCHANGED guardVars
    /\ UNCHANGED tester
    /\ UNCHANGED sim
    /\ UNCHANGED rebuilder

NextReload ==
    \/ \E nick \in Nicknames : Connection(nick)
    \/ \E s \in DOMAIN bound : PlayerReady(s, TRUE)
    \/ \E s \in DOMAIN bound : GameStart(s)
    \/ \E s \in DOMAIN bound : GameAction(s, [type |-> "GUESS", payload |-> [number |-> 50]])
    \/ \E impl \in RebuiltImplementations : ReloadEngine(impl)
    \/ ReloadEngineNotBuilt

SpecReload == Init /\ [][NextReload]_vars

\* C38: a reload is an event of its own, between the others; a reload that
\* fails (artifact missing or module incomplete) leaves the complete module
\* loaded before as the engine of all later events and leaves the room
\* (roster, phase, engine state) as it was; the engine the handlers use is
\* at all times a complete module.
C38_FailedReloadKeepsEngine ==
    /\ [](\E impl \in loader.engine : firstMissing(impl) = 0)
    /\ [][ /\ lastEvent'.type = "reloadEngine" =>
                /\ room' = room
                /\ bound' = bound
                /\ IF loader'.error # ""
                   THEN loader'.engine = loader.engine
                   ELSE loader'.engine = loader'.loaded
           /\ lastEvent'.type # "reloadEngine" => loader' = loader ]_vars

\* A game was started and ended by a guess after a reload had failed on an
\* incomplete module: both events ran on the engine loaded before.
C38_Witness ==
    /\ lastEvent.type = "game:action"
    /\ room.phase = "ended"
    /\ loader.error = "Engine missing required method: getResult"
    /\ loader.loaded = { { "init", "handleAction", "isGameOver" } }
    /\ loader.engine = { { required[i] : i \in 1..Len(required) } }

(***************************************************************************)
(* createEngineRebuilder (dev-kit/src/commands/dev.ts).                    *)
(***************************************************************************)
\* Source-change events in one run.
MaxChanges == 4

\* building, pendingBuild and debounceTimer (armed or not) are the closure's
\* variables; running counts the build() calls that have not settled.  The
\* rest is history: the changes and the builds so far, the failed builds,
\* the builds started since the latest change, and whether that change
\* arrived while a build was running.
Rebuilder(building, pendingBuild, debounceTimer, running, changes, started, failed, startsSinceChange, changeInBuild) ==
    [ building |-> building, pendingBuild |-> pendingBuild,
      debounceTimer |-> debounceTimer, running |-> running,
      changes |-> changes, started |-> started, failed |-> failed,
      startsSinceChange |-> startsSinceChange, changeInBuild |-> changeInBuild ]

\* A build that starts whether or not one is running.
runBuild_unguarded(rb) ==
    [ rb EXCEPT !.building = TRUE, !.running = @ + 1, !.started = @ + 1,
                !.startsSinceChange = @ + 1 ]

\* A request that is dropped while a build is running.
runBuild_dropsRequest(rb) ==
    IF rb.building
    THEN rb
    ELSE [ rb EXCEPT !.building = TRUE, !.running = @ + 1, !.started = @ + 1,
                     !.startsSinceChange = @ + 1 ]

\* runBuild() up to its await: the request is noted if a build is running,
\* otherwise build() is called.
runBuild(rb) ==
    IF rb.building
    THEN [ rb EXCEPT !.pendingBuild = TRUE ]
    ELSE [ rb EXCEPT !.building = TRUE, !.running = @ + 1, !.started = @ + 1,
                     !.startsSinceChange = @ + 1 ]

\* The finally block of runBuild, after build() settled.
buildSettled(rb, ok) ==
    LET done == [ rb EXCEPT !.building = FALSE, !.running = @ - 1,
                            !.failed = IF ok THEN @ ELSE @ + 1 ]
    IN  IF done.pendingBuild
        THEN runBuild([ done EXCEPT !.pendingBuild = FALSE ])
        ELSE done

InitRebuild ==
    /\ room = createRoom("dev-game")
    /\ bound = [ s \in {} |-> Null ]
    /\ joined = 0
    /\ lastEvent = Event("listen", Null, Null)
    /\ outbox = <<>>
    /\ calls = <<>>
    /\ GuardIdle
    /\ EngineLoaded
    /\ tester = Null
    /\ sim = Null
    /\ rebuilder = Rebuilder(FALSE, FALSE, FALSE, 0, 0, 0, 0, 0, FALSE)

rebuilderFrame ==
    /\ UNCHANGED roomVars
    /\ UNCHANGED guardVars
    /\ UNCHANGED loader
    /\ UNCHANGED tester
    /\ UNCHANGED sim

\* The callback the watcher calls on a source change: the debounce timer is
\* cleared if armed and armed again.
SourceChange ==
    /\ rebuilder.changes < MaxChanges
    /\ rebuilder' = [ rebuilder EXCEPT !.debounceTimer = TRUE,
                                       !.changes = @ + 1,
                                       !.startsSinceChange = 0,
                                       !.changeInBuild = (rebuilder.running > 0) ]
    /\ rebuilderFrame

\* The debounce timer expires, 300 ms after the latest change.
DebounceFires ==
    /\ rebuilder.debounceTimer
    /\ rebuilder' = runBuild([ rebuilder EXCEPT !.debounceTimer = FALSE ])
    /\ rebuilderFrame

\* A running build() resolves.
BuildSucceeds ==
    /\ rebuilder.running > 0
    /\ rebuilder' = buildSettled(rebuilder, TRUE)
    /\ rebuilderFrame

\* A running build() rejects.
BuildFails ==
    /\ rebuilder.running > 0
    /\ rebuilder' = buildSettled(rebuilder, FALSE)
    /\ rebuilderFrame

NextRebuild ==
    \/ SourceChange
    \/ DebounceFires
    \/ BuildSucceeds
    \/ BuildFails

SpecRebuild == InitRebuild /\ [][NextRebuild]_vars

\* Timers expire and every build terminates.
SpecRebuildLive ==
    /\ InitRebuild
    /\ [][NextRebuild]_vars
    /\ WF_vars(DebounceFires)
    /\ WF_vars(BuildSucceeds \/ BuildFails)

\* C39: at most one engine build is in progress at any time, whatever the
\* order of source changes, debounce expiries and builds that succeed or
\* fail; a build is in progress exactly while `building` is set.
C39_OneBuildAtATime ==
    /\ rebuilder.running <= 1
    /\ rebuilder.building <=> (rebuilder.running = 1)

\* After a failed build, a build is running with a request noted for it and
\* the debounce of a newer change still pending.
C39_Witness ==
    /\ rebuilder.running = 1
    /\ rebuilder.pendingBuild
    /\ rebuilder.debounceTimer
    /\ rebuilder.failed >= 1

\* A source change has not yet been followed by the start of a build.
unbuilt == rebuilder.changes > 0 /\ rebuilder.startsSinceChange = 0

====
